---- MODULE Spec2Model ----
(***************************************************************************)
(* A model of the EEG streaming pair: the generator side (EEG_GE: frame    *)
(* packing, TCP broadcast server) and the receiver side (EEG_RE: stream    *)
(* parser, data buffer, TCP client).                                       *)
(*                                                                         *)
(* Numbers.  A voltage is a real number in the code.  Here a voltage is an *)
(* integer count of sub-units, one sub-unit being ref_voltage/(FullScale * *)
(* VoltDen) microvolts, so that voltage/ref_voltage*FullScale is the exact *)
(* rational v/VoltDen and int() of it is a truncating division.  A decoded *)
(* value k*ref_voltage/FullScale is kept as the integer k (quantization    *)
(* units).  Floating-point rounding is not modelled.                       *)
(***************************************************************************)
EXTENDS Integers, Sequences, FiniteSets, TLC

VARIABLES
    \* --- EEGParser and the byte stream fed to it
    segs,        \* the pieces the byte stream was built from
    stream,      \* the bytes the peer sends, in order
    pos,         \* how many bytes of stream have been handed to process_data
    split,       \* whether the stream has been handed over in more than one call
    buffer,      \* EEGParser.buffer
    emitted,     \* the data_parsed emissions so far, in order
    \* --- DataBuffer
    max_points,       \* DataBuffer.max_points (the maxlen of every deque)
    channel_buffers,  \* DataBuffer.channel_buffers: 8 deques
    label_buffers,    \* DataBuffer.label_buffers: 2 deques
    time_buffer,      \* DataBuffer.time_buffer
    sampling_rate,    \* DataBuffer.sampling_rate
    current_time,     \* DataBuffer.current_time, in milliseconds
    pushed,           \* history: the inputs of add_data since construction, while
                      \* no clear or resize has happened
    stamps,           \* history: the time stamp given to each of them
    touched,          \* history: a clear or a resize has happened
    npush,            \* history: the number of add_data calls so far
    last_op,          \* history: the DataBuffer method called last
    last_data,        \* history: its argument when it was add_data, else <<>>
    last_max_points,  \* history: its argument when it was set_max_points, else 0
    cleared_nonempty, \* history: the last call, or the one before an add_data,
                      \* was a clear that found entries and a running time
    \* --- TcpServer (EEG_GE)
    is_running,       \* TcpServer.is_running
    server_socket,    \* TcpServer.server_socket: "None" or "listening"
    max_clients,      \* TcpServer.max_clients
    clients,          \* TcpServer.clients: a sequence of socket ids
    lock,             \* TcpServer.lock: "free" or the thread holding it
    acc_pc,           \* where the accept thread is
    acc_sock,         \* the socket accept() returned to it (0: none)
    ui_pc,            \* where the thread calling start/stop/... is
    gen_pc,           \* where the thread calling send_data is
    gen_idx,          \* send_data: the next index of the for loop over clients
    gen_dead,         \* send_data: disconnected_clients
    gen_sent,         \* send_data: sent_count
    sock_state,       \* per socket id: "unused", "open" or "closed" (server side)
    connected_events,     \* socket ids client_connected was emitted for
    disconnected_events,  \* per socket id, how often client_disconnected was emitted
    accept_errors,    \* how many accept errors were reported (error_occurred)
    arrived_full,     \* history: socket ids whose capacity check found max_clients or more clients
    client_count,     \* the last value get_client_count returned (-1: never called)
    gen_raw,          \* history: the vector data_generated carried in this pass
    gen_data,         \* send_data: data (what the controller's handler passed on)
    gen_frame,        \* send_data: frame
    pack_failed,      \* the last send_data emitted error_occurred for a packing error
    gen_ret,          \* what the last send_data returned (-1: still running, or none)
    wrote_ok,         \* history: the clients sendall succeeded on in this pass
    received,         \* history: per socket id, the bytes this pass wrote to it
    \* --- TCPClient (EEG_RE)
    tcp_is_connected,     \* TCPClient.is_connected
    tcp_running,          \* TCPClient.running
    tcp_auto_reconnect,   \* TCPClient.auto_reconnect
    tcp_socket,           \* TCPClient.socket: "None", or the state of the socket object
    tcp_reconnect_thread, \* TCPClient.reconnect_thread: "None" or "Thread"
    call_pc,              \* where the thread calling connect/disconnect is
    call_in_connect,      \* disconnect() is running inside connect()
    recv_pc,              \* per receive thread: where it is ("free": no such thread)
    rc_pc,                \* per reconnect thread: where it is ("free": no such thread)
    rc_retry,             \* per reconnect thread: retry_count
    rc_from_connect,      \* history: the reconnect thread was started by connect()
    rc_reported,          \* history: the reconnect thread reported that it gave up
    tcp_signals,          \* the signals the last step emitted
    since_fail_clean,     \* history: connect() failed with auto_reconnect on, and since
                          \* then no call was made and no socket.connect succeeded
    awaiting_reconnect,   \* history: recv returned no bytes with auto_reconnect on and
                          \* no disconnect() requested, and since then no call was made
                          \* and no reconnect attempt was begun
    disc_requested,       \* history: disconnect() was called since the last connect()
    recv_old,             \* history, per receive thread: a connection was made after
                          \* the thread was started
    rc_extra,             \* an _auto_reconnect thread is alive besides those of rc_pc
    \* --- EEGParser._parse_frame called on its own
    dec_span,        \* the byte span handed to _parse_frame
    dec_done,        \* whether _parse_frame has returned for it
    dec_result,      \* what it returned: <<>> for None, else <<sample>>
    \* --- EEGParser.process_data, one loop iteration at a time
    feed_pc,         \* "idle", or "loop": inside the while loop
    feed_iters,      \* history: loop iterations of the current or last call
    feed_skipped,    \* history: that call skipped a header (line 72-73)
    feed_base,       \* history: Len(emitted) when that call began
    feed_len,        \* history: Len(buffer) when that call entered the loop
    frames_processed,\* process_data: frames_processed
    feed_ret,        \* what the last process_data returned (-1: none yet)
    feed_desync,     \* history: pos at the last return through lines 57-65 (-1: none)
    \* --- WebSocketClient
    ws_is_connected, ws_running, ws_auto_reconnect,
    ws_websocket,         \* "None", "open", or "closed": the peer has closed it
    ws_loop,              \* "None" or "open" (a closed loop is never kept)
    ws_client,            \* where the client thread is: "none", "started",
                          \* "connecting", "receiving", "parked" (in run_forever)
    ws_reconnect_thread,  \* "None" or "set"
    ws_pending_send,      \* a _safe_send is scheduled on the loop
    wcall_pc,             \* the caller: "idle", or "wait" inside connect()
    wrc_pc,               \* the reconnect thread: "free", "check", "attempt",
                          \* "wait" (inside connect()), "final"
    wrc_retry,            \* _auto_reconnect: retry_count
    ws_signals,           \* the signals the last step emitted
    ws_lost,              \* history: with auto_reconnect set, a connection failed
                          \* or was lost, and no call or attempt came since
    ws_send_failed,       \* history: the same for a send that failed
    \* --- DataBuffer.add_data and get_data on two threads
    push_pc,         \* add_data: 0 outside it, else the store written next
                     \* (1..8 the channels, 9..10 the labels)
    push_vals,       \* add_data: the 8 channel values and 2 label values to store
    snap_pc,         \* get_data: 0 outside it, else the store read next
                     \* (1..8 the channels, 9..10 the labels, 11 the time axis)
    snap_channels,   \* get_data: channels_data so far
    snap_labels,     \* get_data: labels_data so far
    snap_time,       \* get_data: time_data
    snap_done,       \* get_data has returned what the three variables hold
    \* --- SineWaveGenerator
    frequencies,     \* the 8 frequencies, in tenths of a Hz (channel c at c + 1)
    amplitudes,      \* the 8 amplitudes, in tenths of a microvolt
    sine_calls,      \* history: calls of set_channel_params so far
    last_params,     \* history: the arguments of the last call (<<>> before the first)
    \* --- FileReplayGenerator
    replay_data,       \* self.data: loaded FALSE for None, else rows is the table
    current_index,     \* self.current_index
    replay_is_running, \* self.is_running
    replay_thread,     \* "none", or "loop" while a thread is in _generate_loop
    replay_emitted,    \* history: [index, vector] of every data_generated since the last load
    replay_errors,     \* history: the last load_file or loop entry emitted error_occurred
    bp_senders, \* the threads calling send_data
    bp_running, \* TcpServer.is_running
    bp_clients, \* TcpServer.clients
    bp_lock, \* holder of TcpServer.lock, or "free"
    bp_send_pc, \* position of each send_data call
    bp_send_idx, \* the for loop's position in clients
    bp_send_frame, \* number of the frame a call is sending
    bp_send_dead, \* disconnected_clients of each call
    bp_acc_pc, \* position of _accept_clients
    bp_acc_sock, \* the socket accept() returned
    bp_stop_pc, \* position of stop()
    bp_next_frame, \* number of the next vector the source generates
    bp_log, \* per socket: the <<frame, half>> pieces written to it
    bp_sock, \* per socket: unused, open, gone (peer left) or closed
    \* --- WebSocketClient teardown
    td_loop, \* WebSocketClient.loop: "set" or "None"
    td_state, \* the event loop object: "idle", "running" or "closed"
    td_stop, \* a loop.stop callback waits to be run by the loop
    td_task, \* the task of _connect_to_server: "pending" or "done"
    td_ws, \* WebSocketClient.websocket: "open" or "None"
    td_coro, \* _disconnect_websocket on the loop: "none", "scheduled", "done"
    td_call_pc, \* position of _cleanup_resources
    td_thr_pc \* position of the client thread in _run_client

parserVars == <<segs, stream, pos, split, buffer, emitted>>
bufVars == <<max_points, channel_buffers, label_buffers, time_buffer, sampling_rate,
             current_time, pushed, stamps, touched, npush, last_op, last_data,
             last_max_points, cleared_nonempty>>
srvVars == <<is_running, server_socket, max_clients, clients, lock, acc_pc, acc_sock,
             ui_pc, gen_pc, gen_idx, gen_dead, gen_sent, sock_state,
             connected_events, disconnected_events, accept_errors, arrived_full,
             client_count, gen_raw, gen_data, gen_frame, pack_failed, gen_ret,
             wrote_ok, received>>
passVars == <<gen_raw, gen_data, gen_frame, pack_failed, gen_ret, wrote_ok, received>>
tcpVars == <<tcp_is_connected, tcp_running, tcp_auto_reconnect, tcp_socket,
             tcp_reconnect_thread, call_pc, call_in_connect, recv_pc, rc_pc, rc_retry,
             rc_from_connect, rc_reported, tcp_signals, since_fail_clean,
             awaiting_reconnect, disc_requested, recv_old, rc_extra>>
decVars == <<dec_span, dec_done, dec_result>>
feedVars == <<feed_pc, feed_iters, feed_skipped, feed_base, feed_len,
              frames_processed, feed_ret, feed_desync>>
wsVars == <<ws_is_connected, ws_running, ws_auto_reconnect, ws_websocket, ws_loop,
           ws_client, ws_reconnect_thread, ws_pending_send, wcall_pc, wrc_pc, wrc_retry,
           ws_signals, ws_lost, ws_send_failed>>
snapVars == <<push_pc, push_vals, snap_pc, snap_channels, snap_labels, snap_time, snap_done>>
sineVars == <<frequencies, amplitudes, sine_calls, last_params>>
replayVars == <<replay_data, current_index, replay_is_running, replay_thread, replay_emitted, replay_errors>>
passListVars == <<bp_senders, bp_running, bp_clients, bp_lock, bp_send_pc, bp_send_idx, bp_send_frame, bp_send_dead, bp_acc_pc, bp_acc_sock, bp_stop_pc, bp_next_frame, bp_log, bp_sock>>
teardownVars == <<td_loop, td_state, td_stop, td_task, td_ws, td_coro, td_call_pc, td_thr_pc>>
vars == <<parserVars, bufVars, srvVars, tcpVars, decVars, feedVars, wsVars, snapVars, sineVars, replayVars, passListVars, teardownVars>>
\* what each component leaves alone
notParser == <<bufVars, srvVars, tcpVars, decVars, feedVars, wsVars, snapVars, sineVars, replayVars, passListVars, teardownVars>>
notBuffer == <<parserVars, srvVars, tcpVars, decVars, feedVars, wsVars, snapVars, sineVars, replayVars, passListVars, teardownVars>>
notServer == <<parserVars, bufVars, tcpVars, decVars, feedVars, wsVars, snapVars, sineVars, replayVars, passListVars, teardownVars>>
notDecode == <<parserVars, bufVars, srvVars, tcpVars, feedVars, wsVars, snapVars, sineVars, replayVars, passListVars, teardownVars>>
notFeed == <<bufVars, srvVars, tcpVars, decVars, wsVars, snapVars, sineVars, replayVars, passListVars, teardownVars>>
notSnap == <<parserVars, srvVars, tcpVars, decVars, feedVars, wsVars, pushed, stamps, touched,
             last_op, last_data, last_max_points, cleared_nonempty, sineVars, replayVars, passListVars, teardownVars>>
notSine == <<parserVars, bufVars, srvVars, tcpVars, decVars, feedVars, wsVars, snapVars, replayVars, passListVars, teardownVars>>
notReplay == <<parserVars, bufVars, srvVars, tcpVars, decVars, feedVars, wsVars, snapVars, sineVars, passListVars, teardownVars>>
notPass == <<parserVars, bufVars, srvVars, tcpVars, decVars, feedVars, wsVars, snapVars, sineVars, replayVars, teardownVars>>
notTeardown == <<parserVars, bufVars, srvVars, tcpVars, decVars, feedVars, wsVars, snapVars, sineVars, replayVars, passListVars>>
notWs == <<parserVars, bufVars, srvVars, tcpVars, decVars, feedVars, snapVars, sineVars, replayVars, passListVars, teardownVars>>
notTcp == <<parserVars, bufVars, srvVars, decVars, feedVars, wsVars, snapVars, sineVars, replayVars, passListVars, teardownVars>>

----------------------------------------------------------------------------
(* Helpers on sequences, with Python's meaning.                            *)

Min(a, b) == IF a < b THEN a ELSE b
Max(a, b) == IF a > b THEN a ELSE b
Abs(a) == IF a < 0 THEN -a ELSE a

\* seq[-n:] for n > 0
LastN(seq, n) == IF Len(seq) <= n THEN seq ELSE SubSeq(seq, Len(seq) - n + 1, Len(seq))
\* seq[n:]
DropN(seq, n) == IF n >= Len(seq) THEN <<>> ELSE SubSeq(seq, n + 1, Len(seq))
\* seq[:n]
TakeN(seq, n) == IF n >= Len(seq) THEN seq ELSE SubSeq(seq, 1, n)

Zeros(n) == [i \in 1..n |-> 0]

RECURSIVE Concat(_)
Concat(ss) == IF ss = <<>> THEN <<>> ELSE Head(ss) \o Concat(Tail(ss))

\* bytearray.find(pat, start): the 1-based place of the first occurrence of pat
\* that begins at or after place from; 0 when there is none (Python's -1).
Find(buf, pat, from) ==
    LET hits == {i \in from..(Len(buf) - Len(pat) + 1) :
                     \A k \in 1..Len(pat) : buf[i + k - 1] = pat[k]}
    IN  IF hits = {} THEN 0 ELSE CHOOSE i \in hits : \A j \in hits : i <= j

----------------------------------------------------------------------------
(* The frame format: EEG_GE TcpServer._pack_data.                          *)

FullScale == 8388607
TwoTo24 == 16777216
VoltDen == 20

frame_header == <<160, 255>>
pack_footer == <<192, 0>>

\* int(x) of the rational v / VoltDen: truncation toward zero
TruncDiv(v, d) == IF v >= 0 THEN v \div d ELSE -((-v) \div d)

\* lines 197-200: the 24-bit integer of one voltage
voltage_to_int(v) == Max(-FullScale - 1, Min(FullScale, TruncDiv(v, VoltDen)))

\* lines 203-208: three bytes, little-endian two's complement
IntToBytes(k) ==
    LET u == IF k < 0 THEN k + TwoTo24 ELSE k
    IN  <<u % 256, (u \div 256) % 256, (u \div 65536) % 256>>

PackData(data) ==
    frame_header
    \o Concat([i \in 1..Min(8, Len(data)) |-> IntToBytes(voltage_to_int(data[i]))])
    \o Zeros(3 * Max(0, 8 - Len(data)))
    \o Zeros(3 * 2)
    \o pack_footer

----------------------------------------------------------------------------
(* EEG_RE EEGParser.                                                       *)

frame_footer == <<192>>
channel_count == 8
label_count == 2
bytes_per_value == 3
keep_tail == 10

expected_length ==
    Len(frame_header) + (channel_count + label_count) * bytes_per_value + Len(frame_footer)

\* a _bytes_to_int that forgets the sign bit
BytesToIntUnsigned(b) ==
    IF Len(b) # 3 THEN 0 ELSE b[1] + b[2] * 256 + b[3] * 65536

\* _bytes_to_int: the signed 24-bit integer of three little-endian bytes (the
\* returned voltage is this integer times ref_voltage / FullScale)
BytesToInt(b) ==
    IF Len(b) # 3 THEN 0
    ELSE LET value == b[1] + b[2] * 256 + b[3] * 65536
         IN  IF value >= 8388608 THEN value - TwoTo24 ELSE value

\* a _parse_frame that does not look at the footer
ParseFrameAnyFooter(frame) ==
    IF Len(frame) # expected_length THEN <<>>
    ELSE IF TakeN(frame, Len(frame_header)) # frame_header THEN <<>>
    ELSE LET data_part == SubSeq(frame, Len(frame_header) + 1,
                                 Len(frame) - Len(frame_footer))
             value(j) == BytesToInt(SubSeq(data_part, (j - 1) * bytes_per_value + 1,
                                           j * bytes_per_value))
         IN  << [channels |-> [i \in 1..channel_count |-> value(i)],
                 labels |-> [i \in 1..label_count |-> value(channel_count + i)]] >>

\* _parse_frame: <<>> for None, else a one-element sequence holding the sample
ParseFrame(frame) ==
    IF Len(frame) # expected_length THEN <<>>
    ELSE IF TakeN(frame, Len(frame_header)) # frame_header
            \/ LastN(frame, Len(frame_footer)) # frame_footer THEN <<>>
    ELSE LET data_part == SubSeq(frame, Len(frame_header) + 1,
                                 Len(frame) - Len(frame_footer))
             value(j) == BytesToInt(SubSeq(data_part, (j - 1) * bytes_per_value + 1,
                                           j * bytes_per_value))
         IN  << [channels |-> [i \in 1..channel_count |-> value(i)],
                 labels |-> [i \in 1..label_count |-> value(channel_count + i)]] >>

\* a parser that forgets the whole buffer when it holds no header
KeepTailForget(buf) == <<>>

\* lines 36-37: no header in the buffer
KeepTail(buf) == IF Len(buf) > keep_tail THEN LastN(buf, keep_tail) ELSE buf

\* a parser that never cuts the buffer
DesyncKeepAll(buf) == buf

\* lines 60-64: a header, a full frame's worth of bytes, no footer
Desync(buf) == IF Len(buf) > expected_length * 2 THEN LastN(buf, expected_length) ELSE buf

\* lines 30-87: the while loop of process_data, from a buffer and the samples
\* emitted so far to the buffer left and the samples emitted
RECURSIVE ProcessLoop(_, _)
ProcessLoop(buf, out) ==
    LET h == Find(buf, frame_header, 1)
    IN  IF h = 0 THEN [buffer |-> KeepTail(buf), emitted |-> out]
        ELSE
        LET b1 == DropN(buf, h - 1)
        IN  IF Len(b1) < expected_length THEN [buffer |-> b1, emitted |-> out]
            ELSE
            LET f == Find(b1, frame_footer, Len(frame_header) + 1)
            IN  IF f = 0 THEN [buffer |-> Desync(b1), emitted |-> out]
                ELSE
                LET frame_length == f + Len(frame_footer) - 1
                IN  IF frame_length # expected_length
                    THEN ProcessLoop(DropN(b1, Len(frame_header)), out)
                    ELSE ProcessLoop(DropN(b1, frame_length),
                                     out \o ParseFrame(TakeN(b1, frame_length)))

\* process_data(data) from the buffer buf
ProcessData(buf, data) == ProcessLoop(buf \o data, <<>>)

----------------------------------------------------------------------------
(* The byte streams the parser is fed.                                     *)

MaxSegs == 2
JunkLen == 70

\* 100 and -50 microvolts, the spec's scenario
VecScenario == <<(FullScale * VoltDen) \div 10, -((FullScale * VoltDen) \div 20), 0, 0, 0, 0, 0, 0>>
\* both ends of the range: 1000 and -1000 microvolts
VecRange == <<FullScale * VoltDen, -(FullScale * VoltDen), 7, 0, 0, 0, 0, -7>>
\* a voltage whose integer is 192: its low byte is the footer byte 0xC0
VecFooterByte == <<192 * VoltDen + 1, 0, 0, 0, 0, 0, 0, 0>>
\* the footer byte in channel 8's middle byte
VecLateFooterByte == <<VoltDen, 0, 0, 0, 0, 0, 0, 49152 * VoltDen>>
\* a voltage whose integer is 0x00FFA0: its bytes hold the header A0 FF
VecHeaderBytes == <<0, 65440 * VoltDen, 0, 0, 0, 0, 0, 0>>
\* the footer byte in channel 1 and the header bytes in channel 3
VecFooterThenHeader == <<192 * VoltDen + 1, 0, 65440 * VoltDen, 0, 0, 0, 0, 0>>

SampleVectors ==
    {VecScenario, VecFooterByte, VecLateFooterByte, VecHeaderBytes, VecFooterThenHeader}
TruncLens == {8, 33}
Garbage == { <<160>>, <<192>>, frame_header \o [i \in 1..JunkLen |-> 1] }

FrameSegs == {[kind |-> "frame", vec |-> v, bytes |-> PackData(v)] : v \in SampleVectors}
TruncSegs == {[kind |-> "trunc", vec |-> v, bytes |-> TakeN(PackData(v), n)] :
                  v \in {VecScenario}, n \in TruncLens}
GarbageSegs == {[kind |-> "garbage", vec |-> <<>>, bytes |-> g] : g \in Garbage}
Segments == FrameSegs \cup TruncSegs \cup GarbageSegs

StreamOf(ss) == Concat([i \in 1..Len(ss) |-> ss[i].bytes])

ChunkSizes == {1, expected_length + 1}

InitParser ==
    /\ segs \in UNION {[1..n -> Segments] : n \in 1..MaxSegs}
    /\ stream = StreamOf(segs)
    /\ pos = 0
    /\ split = FALSE
    /\ buffer = <<>>
    /\ emitted = <<>>

\* the receive loop hands the next n bytes of the stream to process_data
process_data(n) ==
    /\ pos + n <= Len(stream)
    /\ LET r == ProcessData(buffer, SubSeq(stream, pos + 1, pos + n))
       IN  /\ buffer' = r.buffer
           /\ emitted' = emitted \o r.emitted
    /\ pos' = pos + n
    /\ split' = (pos > 0)
    /\ UNCHANGED <<segs, stream>>

NextParser ==
    \E n \in ChunkSizes \cup {Len(stream) - pos} :
        n > 0 /\ process_data(n) /\ UNCHANGED notParser

----------------------------------------------------------------------------
(* EEG_RE DataBuffer.  Values are microvolts as plain integers; time is in *)
(* milliseconds, so a step 1/sampling_rate is 1000 \div sampling_rate.     *)

DefaultMaxPoints == 2
MaxPushes == 4
default_sampling_rate == 250
channel_limit == 1000000
label_limit == 1000

SampleA == [channels |-> <<1, 2, 3, 4, 5, 6, 7, 8>>, labels |-> <<1, 0>>]
SampleB == [channels |-> <<-1, -2, -3, -4, -5, -6, -7, -8>>, labels |-> <<0, 1>>]
SampleShort == [channels |-> <<9>>, labels |-> <<1, 1, 1>>]
SampleOutlier == [channels |-> <<1000001, -1000001, 1000000, 4, 5, 6, 7, 8>>,
                  labels |-> <<1001, -1000>>]
SampleNoLabels == [channels |-> <<1, 2, 3, 4, 5, 6, 7, 8>>]
SampleLong == [channels |-> <<11, 12, 13, 14, 15, 16, 17, 18, 19>>, labels |-> <<1>>]
SampleNoChannels == [labels |-> <<1, 0>>]
Samples == {SampleA, SampleB, SampleShort, SampleOutlier, SampleNoLabels, SampleLong,
            SampleNoChannels}

\* a deque that refuses the new entry when it is full
DequeAppendKeepOld(dq, x, n) == IF Len(dq) >= n THEN dq ELSE Append(dq, x)

\* deque(maxlen = n).append(x)
DequeAppend(dq, x, n) == LastN(Append(dq, x), n)
\* a resize that keeps the oldest entries
DequeOfOldest(items, n) == IF Len(items) > n THEN TakeN(items, n) ELSE items
\* deque(items, maxlen = n) for n > 0
DequeOf(items, n) == IF Len(items) > n THEN LastN(items, n) ELSE items

\* lines 41-42: pad with zeros or cut to n values
FitTo(seq, n) == TakeN(seq, n) \o Zeros(Max(0, n - Len(seq)))
\* a check that also zeroes a value equal to the limit
ZeroOutliersInclusive(seq, limit) ==
    [i \in 1..Len(seq) |-> IF Abs(seq[i]) >= limit THEN 0 ELSE seq[i]]
\* lines 45-53: a value beyond the limit becomes 0
ZeroOutliers(seq, limit) == [i \in 1..Len(seq) |-> IF Abs(seq[i]) > limit THEN 0 ELSE seq[i]]

HasKeys(data) == "channels" \in DOMAIN data /\ "labels" \in DOMAIN data

\* lines 34-53: the channel and label values add_data stores
NormalChannels(data) ==
    LET mismatch == Len(data.channels) # channel_count \/ Len(data.labels) # label_count
    IN  ZeroOutliers(IF mismatch THEN FitTo(data.channels, channel_count) ELSE data.channels,
                     channel_limit)
NormalLabels(data) ==
    LET mismatch == Len(data.channels) # channel_count \/ Len(data.labels) # label_count
    IN  ZeroOutliers(IF mismatch THEN FitTo(data.labels, label_count) ELSE data.labels,
                     label_limit)

InitBuffer ==
    /\ max_points = DefaultMaxPoints
    /\ channel_buffers = [i \in 1..channel_count |-> <<>>]
    /\ label_buffers = [i \in 1..label_count |-> <<>>]
    /\ time_buffer = <<>>
    /\ sampling_rate = default_sampling_rate
    /\ current_time = 0
    /\ pushed = <<>>
    /\ stamps = <<>>
    /\ touched = FALSE
    /\ npush = 0
    /\ last_op = "none"
    /\ last_data = <<>>
    /\ last_max_points = 0
    /\ cleared_nonempty = FALSE

add_data(data) ==
    /\ npush < MaxPushes
    /\ npush' = npush + 1
    /\ last_op' = "add_data" /\ last_data' = data /\ last_max_points' = 0
    /\ cleared_nonempty' = (cleared_nonempty /\ last_op = "clear")
    /\ IF ~HasKeys(data)
       THEN UNCHANGED <<max_points, channel_buffers, label_buffers, time_buffer,
                        sampling_rate, current_time, pushed, stamps, touched>>
       ELSE /\ current_time' = current_time + 1000 \div sampling_rate
            /\ time_buffer' = DequeAppend(time_buffer, current_time', max_points)
            /\ channel_buffers' =
                   [i \in 1..channel_count |->
                       DequeAppend(channel_buffers[i], NormalChannels(data)[i], max_points)]
            /\ label_buffers' =
                   [i \in 1..label_count |->
                       DequeAppend(label_buffers[i], NormalLabels(data)[i], max_points)]
            /\ pushed' = IF touched THEN pushed ELSE Append(pushed, data)
            /\ stamps' = IF touched THEN stamps ELSE Append(stamps, current_time')
            /\ UNCHANGED <<max_points, sampling_rate, touched>>

\* a clear that leaves the time counter running
clear_keeps_time ==
    /\ channel_buffers' = [i \in 1..channel_count |-> <<>>]
    /\ label_buffers' = [i \in 1..label_count |-> <<>>]
    /\ time_buffer' = <<>>
    /\ pushed' = <<>> /\ stamps' = <<>> /\ touched' = TRUE
    /\ last_op' = "clear" /\ last_data' = <<>> /\ last_max_points' = 0
    /\ cleared_nonempty' = (time_buffer # <<>> /\ current_time > 0)
    /\ UNCHANGED <<max_points, sampling_rate, npush, current_time>>

\* clear(), lines 102-109
clear ==
    /\ channel_buffers' = [i \in 1..channel_count |-> <<>>]
    /\ label_buffers' = [i \in 1..label_count |-> <<>>]
    /\ time_buffer' = <<>>
    /\ current_time' = 0
    /\ pushed' = <<>> /\ stamps' = <<>> /\ touched' = TRUE
    /\ last_op' = "clear" /\ last_data' = <<>> /\ last_max_points' = 0
    /\ cleared_nonempty' = (time_buffer # <<>> /\ current_time > 0)
    /\ UNCHANGED <<max_points, sampling_rate, npush>>

set_sampling_rate(rate) ==
    /\ sampling_rate' = IF rate > 0 THEN rate ELSE sampling_rate
    /\ last_op' = "set_sampling_rate" /\ last_data' = <<>> /\ last_max_points' = 0
    /\ cleared_nonempty' = FALSE
    /\ UNCHANGED <<max_points, channel_buffers, label_buffers, time_buffer, current_time,
                   pushed, stamps, touched, npush>>

set_max_points(n) ==
    /\ last_op' = "set_max_points" /\ last_max_points' = n /\ last_data' = <<>>
    /\ cleared_nonempty' = FALSE
    /\ IF n > 0 /\ n # max_points
       THEN /\ max_points' = n
            /\ channel_buffers' = [i \in 1..channel_count |-> DequeOf(channel_buffers[i], n)]
            /\ label_buffers' = [i \in 1..label_count |-> DequeOf(label_buffers[i], n)]
            /\ time_buffer' = DequeOf(time_buffer, n)
            /\ pushed' = <<>> /\ stamps' = <<>> /\ touched' = TRUE
       ELSE UNCHANGED <<max_points, channel_buffers, label_buffers, time_buffer, pushed,
                        stamps, touched>>
    /\ UNCHANGED <<sampling_rate, current_time, npush>>

NextBuffer ==
    \/ \E d \in Samples : add_data(d) /\ UNCHANGED notBuffer
    \/ clear /\ UNCHANGED notBuffer
    \/ \E r \in {0, 500} : set_sampling_rate(r) /\ UNCHANGED notBuffer
    \/ \E n \in 0..(DefaultMaxPoints + 1) : set_max_points(n) /\ UNCHANGED notBuffer

----------------------------------------------------------------------------
(* EEG_GE TcpServer.  Three threads: the accept thread (_accept_clients),  *)
(* the thread that calls start, stop, set_max_clients and                  *)
(* get_client_count ("ui"), and the thread that calls send_data ("gen").   *)
(* A `with self.lock` block is entered by a step that takes the lock and   *)
(* left by the step that ends the block.                                   *)

DefaultMaxClients == 2
MaxConns == 3
MaxAcceptErrors == 1

SockIds == 1..MaxConns
Range(seq) == {seq[i] : i \in 1..Len(seq)}
\* list.remove(x): the first occurrence
RECURSIVE Remove(_, _)
Remove(seq, x) ==
    IF seq = <<>> THEN <<>>
    ELSE IF Head(seq) = x THEN Tail(seq) ELSE <<Head(seq)>> \o Remove(Tail(seq), x)

InitServer ==
    /\ is_running = FALSE
    /\ server_socket = "None"
    /\ max_clients = DefaultMaxClients
    /\ clients = <<>>
    /\ lock = "free"
    /\ acc_pc = "none"
    /\ acc_sock = 0
    /\ ui_pc = "idle"
    /\ gen_pc = "idle"
    /\ gen_idx = 0
    /\ gen_dead = <<>>
    /\ gen_sent = 0
    /\ sock_state = [i \in SockIds |-> "unused"]
    /\ connected_events = {}
    /\ disconnected_events = [i \in SockIds |-> 0]
    /\ accept_errors = 0
    /\ arrived_full = {}
    /\ client_count = -1
    /\ gen_raw = <<>>
    /\ gen_data = <<>>
    /\ gen_frame = <<>>
    /\ pack_failed = FALSE
    /\ gen_ret = -1
    /\ wrote_ok = {}
    /\ received = [s \in SockIds |-> <<>>]

\* A float on the broadcast path: a finite number of voltage sub-units, NaN,
\* an infinity, or the largest finite double (what numpy.nan_to_num makes of
\* an infinity).
Fin(v) == [kind |-> "fin", v |-> v]
NaN == [kind |-> "nan", v |-> 0]
PosInf == [kind |-> "inf", v |-> 1]
NegInf == [kind |-> "inf", v |-> -1]
PosMax == [kind |-> "max", v |-> 1]
NegMax == [kind |-> "max", v |-> -1]
FinVec(vs) == [i \in 1..Len(vs) |-> Fin(vs[i])]

\* numpy.isnan, numpy.nan_to_num (main_controller.py lines 208-210)
isnan(x) == x.kind = "nan"
nan_to_num(x) ==
    IF x.kind = "nan" THEN Fin(0)
    ELSE IF x.kind = "inf" THEN [kind |-> "max", v |-> x.v]
    ELSE x

\* tcp_server.py line 197: (data[i] / ref_voltage) * 8388607 in double
\* arithmetic overflows to an infinity for the largest double, and int() of a
\* NaN or an infinity raises; only the first 8 values are converted
IntRaises(x) == x.kind # "fin"
PackRaises(data) == \E i \in 1..Min(8, Len(data)) : IntRaises(data[i])
FiniteValues(data) == [i \in 1..Len(data) |-> data[i].v]

\* lines 157-160: self.clients.remove(client) for every client whose write failed
PrunedNone(cl, dead) == cl
Pruned(cl, dead) == SelectSeq(cl, LAMBDA c : c \notin Range(dead))

\* a capacity check that admits one client too many
AtCapacityOffByOne(n, limit) == n > limit
\* line 102: the capacity check, under the lock
AtCapacity(n, limit) == n >= limit

\* start(), lines 34-64 (bind and listen succeed; a new accept thread is started
\* once the previous one has ended)
start ==
    /\ ui_pc = "idle" /\ ~is_running
    /\ acc_pc \in {"none", "done"}
    /\ server_socket' = "listening"
    /\ is_running' = TRUE
    /\ acc_pc' = "loop"
    /\ UNCHANGED <<max_clients, clients, lock, acc_sock, ui_pc, gen_pc, gen_idx, gen_dead,
                   gen_sent, sock_state, connected_events,
                   disconnected_events, accept_errors, arrived_full, client_count>>
    /\ UNCHANGED passVars

\* set_max_clients, lines 241-243
set_max_clients(n) ==
    /\ ui_pc = "idle"
    /\ max_clients' = n
    /\ UNCHANGED <<is_running, server_socket, clients, lock, acc_pc, acc_sock, ui_pc,
                   gen_pc, gen_idx, gen_dead, gen_sent, sock_state, connected_events, disconnected_events, accept_errors, arrived_full,
                   client_count>>
    /\ UNCHANGED passVars

\* get_client_count, lines 226-229
get_client_count ==
    /\ ui_pc = "idle" /\ lock = "free"
    /\ client_count' = Len(clients)
    /\ UNCHANGED <<is_running, server_socket, max_clients, clients, lock, acc_pc,
                   acc_sock, ui_pc, gen_pc, gen_idx, gen_dead, gen_sent, sock_state,
                   connected_events, disconnected_events, accept_errors,
                   arrived_full>>
    /\ UNCHANGED passVars

\* stop(), lines 68-71
stop_flag ==
    /\ ui_pc = "idle" /\ is_running
    /\ is_running' = FALSE
    /\ ui_pc' = "stop_lock"
    /\ UNCHANGED <<server_socket, max_clients, clients, lock, acc_pc, acc_sock, gen_pc,
                   gen_idx, gen_dead, gen_sent, sock_state, connected_events,
                   disconnected_events, accept_errors, arrived_full, client_count>>
    /\ UNCHANGED passVars

\* stop(), line 74
stop_lock ==
    /\ ui_pc = "stop_lock" /\ lock = "free"
    /\ lock' = "ui"
    /\ ui_pc' = "stop_clients"
    /\ UNCHANGED <<is_running, server_socket, max_clients, clients, acc_pc, acc_sock,
                   gen_pc, gen_idx, gen_dead, gen_sent, sock_state, connected_events, disconnected_events, accept_errors, arrived_full,
                   client_count>>
    /\ UNCHANGED passVars

\* stop(), lines 75-80
stop_clients ==
    /\ ui_pc = "stop_clients"
    /\ sock_state' = [i \in SockIds |-> IF i \in Range(clients) THEN "closed" ELSE sock_state[i]]
    /\ clients' = <<>>
    /\ lock' = "free"
    /\ ui_pc' = "stop_socket"
    /\ UNCHANGED <<is_running, server_socket, max_clients, acc_pc, acc_sock, gen_pc,
                   gen_idx, gen_dead, gen_sent, connected_events,
                   disconnected_events, accept_errors, arrived_full, client_count>>
    /\ UNCHANGED passVars

\* stop(), lines 83-88
stop_socket ==
    /\ ui_pc = "stop_socket"
    /\ server_socket' = "None"
    /\ ui_pc' = "stop_join"
    /\ UNCHANGED <<is_running, max_clients, clients, lock, acc_pc, acc_sock, gen_pc,
                   gen_idx, gen_dead, gen_sent, sock_state, connected_events,
                   disconnected_events, accept_errors, arrived_full, client_count>>
    /\ UNCHANGED passVars

\* stop(), lines 91-92: join(2.0) returns when the thread has ended or the two
\* seconds are over
stop_join ==
    /\ ui_pc = "stop_join"
    /\ ui_pc' = "idle"
    /\ UNCHANGED <<is_running, server_socket, max_clients, clients, lock, acc_pc,
                   acc_sock, gen_pc, gen_idx, gen_dead, gen_sent, sock_state, connected_events, disconnected_events, accept_errors, arrived_full,
                   client_count>>
    /\ UNCHANGED passVars

\* _accept_clients, line 96
accept_loop ==
    /\ acc_pc = "loop"
    /\ acc_pc' = IF is_running THEN "accept" ELSE "done"
    /\ UNCHANGED <<is_running, server_socket, max_clients, clients, lock, acc_sock, ui_pc,
                   gen_pc, gen_idx, gen_dead, gen_sent, sock_state, connected_events, disconnected_events, accept_errors, arrived_full,
                   client_count>>
    /\ UNCHANGED passVars

\* line 98: accept() returns a new connection
accept_connection ==
    /\ acc_pc = "accept" /\ server_socket = "listening"
    /\ \E s \in SockIds :
          /\ sock_state[s] = "unused"
          /\ \A t \in SockIds : t < s => sock_state[t] # "unused"
          /\ sock_state' = [sock_state EXCEPT ![s] = "open"]
          /\ acc_sock' = s
    /\ acc_pc' = "lock"
    /\ UNCHANGED <<is_running, server_socket, max_clients, clients, lock, ui_pc, gen_pc,
                   gen_idx, gen_dead, gen_sent, connected_events,
                   disconnected_events, accept_errors, arrived_full, client_count>>
    /\ UNCHANGED passVars

\* lines 98, 111-113: accept() times out after a second
accept_timeout ==
    /\ acc_pc = "accept" /\ server_socket = "listening"
    /\ acc_pc' = "loop"
    /\ UNCHANGED <<is_running, server_socket, max_clients, clients, lock, acc_sock, ui_pc,
                   gen_pc, gen_idx, gen_dead, gen_sent, sock_state, connected_events, disconnected_events, accept_errors, arrived_full,
                   client_count>>
    /\ UNCHANGED passVars

\* lines 98, 114-117: accept() raises (the listening socket was closed or is
\* None, or the system call failed): reported if still running, and the loop ends
accept_error ==
    /\ acc_pc = "accept"
    /\ server_socket = "None" \/ accept_errors < MaxAcceptErrors
    /\ accept_errors' = IF is_running THEN accept_errors + 1 ELSE accept_errors
    /\ acc_pc' = "done"
    /\ UNCHANGED <<is_running, server_socket, max_clients, clients, lock, acc_sock, ui_pc,
                   gen_pc, gen_idx, gen_dead, gen_sent, sock_state, connected_events, disconnected_events, arrived_full, client_count>>
    /\ UNCHANGED passVars

\* line 101
accept_lock ==
    /\ acc_pc = "lock" /\ lock = "free"
    /\ lock' = "accept"
    /\ acc_pc' = "check"
    /\ UNCHANGED <<is_running, server_socket, max_clients, clients, acc_sock, ui_pc,
                   gen_pc, gen_idx, gen_dead, gen_sent, sock_state, connected_events, disconnected_events, accept_errors, arrived_full,
                   client_count>>
    /\ UNCHANGED passVars

\* lines 102-106
accept_check ==
    /\ acc_pc = "check"
    /\ IF AtCapacity(Len(clients), max_clients)
       THEN /\ sock_state' = [sock_state EXCEPT ![acc_sock] = "closed"]
            /\ acc_pc' = "loop"
            /\ UNCHANGED clients
       ELSE /\ clients' = Append(clients, acc_sock)
            /\ acc_pc' = "emit"
            /\ UNCHANGED sock_state
    /\ arrived_full' = IF Len(clients) >= max_clients THEN arrived_full \cup {acc_sock}
                                                      ELSE arrived_full
    /\ lock' = "free"
    /\ UNCHANGED <<is_running, server_socket, max_clients, acc_sock, ui_pc, gen_pc,
                   gen_idx, gen_dead, gen_sent, connected_events,
                   disconnected_events, accept_errors, client_count>>
    /\ UNCHANGED passVars

\* line 109
accept_emit ==
    /\ acc_pc = "emit"
    /\ connected_events' = connected_events \cup {acc_sock}
    /\ acc_pc' = "loop"
    /\ UNCHANGED <<is_running, server_socket, max_clients, clients, lock, acc_sock, ui_pc,
                   gen_pc, gen_idx, gen_dead, gen_sent, sock_state, disconnected_events, accept_errors, arrived_full, client_count>>
    /\ UNCHANGED passVars

\* MainController._on_data_generated, lines 200-213 (the controller is running):
\* the handler of data_generated, up to its call of send_data
on_data_generated(v) ==
    /\ gen_pc = "idle"
    /\ IF Len(v) = 0
       THEN gen_pc' = "idle" /\ gen_data' = <<>> /\ gen_raw' = <<>>
       ELSE /\ gen_data' = IF \E i \in 1..Len(v) : isnan(v[i])
                           THEN [i \in 1..Len(v) |-> nan_to_num(v[i])] ELSE v
            /\ gen_raw' = v
            /\ gen_pc' = "send"
    /\ gen_frame' = <<>> /\ pack_failed' = FALSE /\ gen_ret' = -1
    /\ gen_idx' = IF Len(v) = 0 THEN 0 ELSE 1
    /\ UNCHANGED <<is_running, server_socket, max_clients, clients, lock, acc_pc,
                   acc_sock, ui_pc, gen_dead, gen_sent, sock_state, connected_events,
                   disconnected_events, accept_errors, arrived_full, client_count,
                   wrote_ok, received>>

\* send_data, lines 128-146: nothing to do (return 0), or the data do not pack
\* (error_occurred, return 0), or the frame is ready and the lock is next
send_begin ==
    /\ gen_pc = "send"
    /\ IF ~is_running \/ clients = <<>> \/ Len(gen_data) = 0
       THEN /\ gen_pc' = "idle" /\ gen_ret' = 0
            /\ gen_raw' = <<>> /\ gen_data' = <<>>
            /\ UNCHANGED <<gen_frame, pack_failed>>
       ELSE IF PackRaises(gen_data)
       THEN /\ gen_pc' = "idle" /\ gen_ret' = 0 /\ pack_failed' = TRUE
            /\ gen_raw' = <<>> /\ gen_data' = <<>>
            /\ UNCHANGED gen_frame
       ELSE /\ gen_frame' = PackData(FiniteValues(gen_data))
            /\ gen_pc' = "send_lock"
            /\ UNCHANGED <<gen_ret, pack_failed, gen_raw, gen_data>>
    /\ UNCHANGED <<is_running, server_socket, max_clients, clients, lock, acc_pc,
                   acc_sock, ui_pc, gen_idx, gen_dead, gen_sent, sock_state,
                   connected_events, disconnected_events, accept_errors, arrived_full,
                   client_count, wrote_ok, received>>

\* send_data, line 147
send_lock ==
    /\ gen_pc = "send_lock" /\ lock = "free"
    /\ lock' = "gen"
    /\ gen_pc' = "send_iter"
    /\ UNCHANGED <<is_running, server_socket, max_clients, clients, acc_pc, acc_sock,
                   ui_pc, gen_idx, gen_dead, gen_sent, sock_state, connected_events,
                   disconnected_events, accept_errors, arrived_full, client_count,
                   gen_raw, gen_data, gen_frame, pack_failed, gen_ret, wrote_ok,
                   received>>

\* lines 148-155: one round of the for loop; sendall succeeds, or raises
\* because the remote end has gone away
send_iter ==
    /\ gen_pc = "send_iter"
    /\ IF gen_idx > Len(clients)
       THEN gen_pc' = "send_prune" /\ UNCHANGED <<gen_idx, gen_dead, gen_sent, wrote_ok, received>>
       ELSE /\ gen_idx' = gen_idx + 1
            /\ gen_pc' = "send_iter"
            /\ \/ /\ sock_state[clients[gen_idx]] = "open"
                  /\ gen_sent' = gen_sent + 1
                  /\ wrote_ok' = wrote_ok \cup {clients[gen_idx]}
                  /\ received' = [received EXCEPT ![clients[gen_idx]] = gen_frame]
                  /\ UNCHANGED gen_dead
               \/ /\ gen_dead' = Append(gen_dead, clients[gen_idx])
                  /\ UNCHANGED <<gen_sent, wrote_ok, received>>
    /\ UNCHANGED <<is_running, server_socket, max_clients, clients, lock, acc_pc,
                   acc_sock, ui_pc, sock_state, connected_events, disconnected_events,
                   accept_errors, arrived_full, client_count, gen_raw, gen_data,
                   gen_frame, pack_failed, gen_ret>>

\* lines 157-170: remove and close the dead clients; getpeername may fail on
\* a dead socket, and then no event is emitted; the lock is released and
\* sent_count returned
send_prune ==
    /\ gen_pc = "send_prune"
    /\ clients' = Pruned(clients, gen_dead)
    /\ sock_state' = [i \in SockIds |-> IF i \in Range(gen_dead) THEN "closed" ELSE sock_state[i]]
    /\ \E named \in SUBSET Range(gen_dead) :
          disconnected_events' =
              [i \in SockIds |-> disconnected_events[i] + IF i \in named THEN 1 ELSE 0]
    /\ lock' = "free"
    /\ gen_ret' = gen_sent
    /\ gen_pc' = "idle"
    /\ gen_idx' = 0 /\ gen_dead' = <<>> /\ gen_sent' = 0
    /\ gen_raw' = <<>> /\ gen_data' = <<>> /\ gen_frame' = <<>>
    /\ wrote_ok' = {} /\ received' = [s \in SockIds |-> <<>>]
    /\ UNCHANGED <<is_running, server_socket, max_clients, acc_pc, acc_sock, ui_pc,
                   connected_events, accept_errors, arrived_full, client_count,
                   pack_failed>>


\* what the generator emits while the server is exercised
ServerVectors == {FinVec(VecScenario), <<PosInf>> \o FinVec(Zeros(7))}

\* the vectors the encoder is exercised with: short, full and long ones, with
\* in-range, out-of-range and non-finite values
EncValues == {Fin(0), Fin((FullScale * VoltDen) \div 10), Fin(2 * FullScale * VoltDen),
              Fin(-(2 * FullScale * VoltDen)), NaN, PosInf, NegInf}
EncLens == {1, 8, 9}
EncVectors ==
    {<<>>} \cup {[i \in 1..n |-> IF i = k THEN x ELSE y] :
                    n \in EncLens, k \in {1, 8}, x \in EncValues, y \in EncValues}

NextServer ==
    \/ start /\ UNCHANGED notServer
    \/ \E n \in {1, DefaultMaxClients} : set_max_clients(n) /\ UNCHANGED notServer
    \/ get_client_count /\ UNCHANGED notServer
    \/ stop_flag /\ UNCHANGED notServer
    \/ stop_lock /\ UNCHANGED notServer
    \/ stop_clients /\ UNCHANGED notServer
    \/ stop_socket /\ UNCHANGED notServer
    \/ stop_join /\ UNCHANGED notServer
    \/ accept_loop /\ UNCHANGED notServer
    \/ accept_connection /\ UNCHANGED notServer
    \/ accept_timeout /\ UNCHANGED notServer
    \/ accept_error /\ UNCHANGED notServer
    \/ accept_lock /\ UNCHANGED notServer
    \/ accept_check /\ UNCHANGED notServer
    \/ accept_emit /\ UNCHANGED notServer
    \/ \E v \in ServerVectors : on_data_generated(v) /\ UNCHANGED notServer
    \/ send_begin /\ UNCHANGED notServer
    \/ send_lock /\ UNCHANGED notServer
    \/ send_iter /\ UNCHANGED notServer
    \/ send_prune /\ UNCHANGED notServer

\* the broadcast path alone: a running server with one client, fed vectors
InitEncode ==
    /\ is_running = TRUE
    /\ server_socket = "listening"
    /\ max_clients = DefaultMaxClients
    /\ clients = <<1>>
    /\ lock = "free"
    /\ acc_pc = "accept"
    /\ acc_sock = 1
    /\ ui_pc = "idle"
    /\ gen_pc = "idle"
    /\ gen_idx = 0
    /\ gen_dead = <<>>
    /\ gen_sent = 0
    /\ sock_state = [i \in SockIds |-> IF i = 1 THEN "open" ELSE "unused"]
    /\ connected_events = {1}
    /\ disconnected_events = [i \in SockIds |-> 0]
    /\ accept_errors = 0
    /\ arrived_full = {}
    /\ client_count = -1
    /\ gen_raw = <<>>
    /\ gen_data = <<>>
    /\ gen_frame = <<>>
    /\ pack_failed = FALSE
    /\ gen_ret = -1
    /\ wrote_ok = {}
    /\ received = [s \in SockIds |-> <<>>]

NextEncode ==
    \/ \E v \in EncVectors : on_data_generated(v) /\ UNCHANGED notServer
    \/ send_begin /\ UNCHANGED notServer
    \/ send_lock /\ UNCHANGED notServer
    \/ send_iter /\ UNCHANGED notServer
    \/ send_prune /\ UNCHANGED notServer

----------------------------------------------------------------------------
(* EEG_RE TCPClient.  The caller's thread runs connect, disconnect and     *)
(* set_auto_reconnect; each receive thread runs _receive_data and each     *)
(* reconnect thread _auto_reconnect.  A step is one read or write of the   *)
(* client's fields, or one socket call (taken at the moment it returns).   *)
(* The socket object is known by its state: "new" (made, not connected),   *)
(* "conn" (connected), "peer_closed" (connected, the server has closed     *)
(* its end), "closed".  A socket object no field refers to any more is     *)
(* gone.  A condition that reads several fields (lines 107, 132, 142) is   *)
(* read in one step; a test followed by an assignment (lines 56-57,        *)
(* 132-133) is two steps.                                                  *)

max_retries == 10
MaxRecvThreads == 1
MaxReconnThreads == 1

RecvIds == 1..MaxRecvThreads
ReconnIds == 1..MaxReconnThreads

\* threading.Thread(...).start(): the new thread takes the lowest free place
HasFree(pcs, ids) == \E i \in ids : pcs[i] = "free"
FirstFree(pcs, ids) == CHOOSE i \in ids : pcs[i] = "free" /\ \A j \in ids : pcs[j] = "free" => i <= j

InitTcp ==
    /\ tcp_is_connected = FALSE
    /\ tcp_running = FALSE
    /\ tcp_auto_reconnect = TRUE
    /\ tcp_socket = "None"
    /\ tcp_reconnect_thread = "None"
    /\ call_pc = "idle"
    /\ call_in_connect = FALSE
    /\ recv_pc = [t \in RecvIds |-> "free"]
    /\ rc_pc = [r \in ReconnIds |-> "free"]
    /\ rc_retry = [r \in ReconnIds |-> 0]
    /\ rc_from_connect = [r \in ReconnIds |-> FALSE]
    /\ rc_reported = [r \in ReconnIds |-> FALSE]
    /\ tcp_signals = {}
    /\ since_fail_clean = FALSE
    /\ awaiting_reconnect = FALSE
    /\ disc_requested = FALSE
    /\ recv_old = [t \in RecvIds |-> FALSE]
    /\ rc_extra = FALSE

\* connect(), lines 36-37: on the caller's thread; a connected client is
\* disconnected first
connect_check ==
    /\ call_pc = "idle"
    /\ call_pc' = IF tcp_is_connected THEN "d_run" ELSE "c_sock"
    /\ call_in_connect' = tcp_is_connected
    /\ disc_requested' = FALSE
    /\ awaiting_reconnect' = FALSE
    /\ since_fail_clean' = FALSE
    /\ tcp_signals' = {}
    /\ UNCHANGED <<tcp_is_connected, tcp_running, tcp_auto_reconnect, tcp_socket,
                   tcp_reconnect_thread, recv_pc, rc_pc, rc_retry, rc_from_connect,
                   rc_reported, recv_old, rc_extra>>

\* disconnect(), line 91 (called by the user, or by connect() at line 37)
disconnect_run ==
    /\ call_pc \in {"idle", "d_run"}
    /\ tcp_running' = FALSE
    /\ call_pc' = "d_close"
    /\ disc_requested' = (call_pc = "idle" \/ disc_requested)
    /\ awaiting_reconnect' = FALSE
    /\ since_fail_clean' = FALSE
    /\ tcp_signals' = {}
    /\ UNCHANGED <<tcp_is_connected, tcp_auto_reconnect, tcp_socket,
                   tcp_reconnect_thread, call_in_connect, recv_pc, rc_pc, rc_retry,
                   rc_from_connect, rc_reported, recv_old, rc_extra>>

\* disconnect(), lines 92-96
disconnect_close ==
    /\ call_pc = "d_close"
    /\ IF tcp_socket # "None"
       THEN tcp_socket' = "closed" /\ call_pc' = "d_none"
       ELSE UNCHANGED tcp_socket /\ call_pc' = "d_conn"
    /\ tcp_signals' = {}
    /\ UNCHANGED <<tcp_is_connected, tcp_running, tcp_auto_reconnect,
                   tcp_reconnect_thread, call_in_connect, recv_pc, rc_pc, rc_retry,
                   rc_from_connect, rc_reported, since_fail_clean, awaiting_reconnect,
                   disc_requested, recv_old, rc_extra>>

\* disconnect(), line 97
disconnect_none ==
    /\ call_pc = "d_none"
    /\ tcp_socket' = "None"
    /\ call_pc' = "d_conn"
    /\ tcp_signals' = {}
    /\ UNCHANGED <<tcp_is_connected, tcp_running, tcp_auto_reconnect,
                   tcp_reconnect_thread, call_in_connect, recv_pc, rc_pc, rc_retry,
                   rc_from_connect, rc_reported, since_fail_clean, awaiting_reconnect,
                   disc_requested, recv_old, rc_extra>>

\* disconnect(), lines 99-101
disconnect_done ==
    /\ call_pc = "d_conn"
    /\ tcp_is_connected' = FALSE
    /\ tcp_signals' = {"disconnected"}
    /\ call_pc' = IF call_in_connect THEN "c_sock" ELSE "idle"
    /\ call_in_connect' = FALSE
    /\ UNCHANGED <<tcp_running, tcp_auto_reconnect, tcp_socket, tcp_reconnect_thread,
                   recv_pc, rc_pc, rc_retry, rc_from_connect, rc_reported,
                   since_fail_clean, awaiting_reconnect, disc_requested, recv_old,
                   rc_extra>>

\* connect(), lines 40-41
connect_socket ==
    /\ call_pc = "c_sock"
    /\ tcp_socket' = "new"
    /\ call_pc' = "c_connect"
    /\ tcp_signals' = {}
    /\ UNCHANGED <<tcp_is_connected, tcp_running, tcp_auto_reconnect,
                   tcp_reconnect_thread, call_in_connect, recv_pc, rc_pc, rc_retry,
                   rc_from_connect, rc_reported, since_fail_clean, awaiting_reconnect,
                   disc_requested, recv_old, rc_extra>>

\* connect(), lines 45, 46, 73: socket.connect succeeds, is refused, or raises
\* something else (a timeout; or the socket is no longer a fresh one)
connect_connect ==
    /\ call_pc = "c_connect"
    /\ \/ /\ tcp_socket = "new"
          /\ tcp_socket' = "conn"
          /\ call_pc' = "c_setconn"
          /\ since_fail_clean' = FALSE
          /\ recv_old' = [t \in RecvIds |-> recv_pc[t] # "free"]
       \/ /\ tcp_socket = "new"
          /\ call_pc' = "c_refused"
          /\ UNCHANGED <<tcp_socket, since_fail_clean, recv_old>>
       \/ /\ call_pc' = "c_exc"
          /\ UNCHANGED <<tcp_socket, since_fail_clean, recv_old>>
    /\ tcp_signals' = {}
    /\ UNCHANGED <<tcp_is_connected, tcp_running, tcp_auto_reconnect,
                   tcp_reconnect_thread, call_in_connect, recv_pc, rc_pc, rc_retry,
                   rc_from_connect, rc_reported, awaiting_reconnect, disc_requested,
                   rc_extra>>

\* connect(), line 62
connect_set_connected ==
    /\ call_pc = "c_setconn"
    /\ tcp_is_connected' = TRUE
    /\ call_pc' = "c_setrun"
    /\ tcp_signals' = {}
    /\ UNCHANGED <<tcp_running, tcp_auto_reconnect, tcp_socket, tcp_reconnect_thread,
                   call_in_connect, recv_pc, rc_pc, rc_retry, rc_from_connect,
                   rc_reported, since_fail_clean, awaiting_reconnect, disc_requested,
                   recv_old, rc_extra>>

\* connect(), line 63
connect_set_running ==
    /\ call_pc = "c_setrun"
    /\ tcp_running' = TRUE
    /\ call_pc' = "c_spawn"
    /\ tcp_signals' = {}
    /\ UNCHANGED <<tcp_is_connected, tcp_auto_reconnect, tcp_socket,
                   tcp_reconnect_thread, call_in_connect, recv_pc, rc_pc, rc_retry,
                   rc_from_connect, rc_reported, since_fail_clean, awaiting_reconnect,
                   disc_requested, recv_old, rc_extra>>

\* connect(), lines 66-72
connect_start_receive ==
    /\ call_pc = "c_spawn"
    /\ HasFree(recv_pc, RecvIds)
    /\ recv_pc' = [recv_pc EXCEPT ![FirstFree(recv_pc, RecvIds)] = "loop"]
    /\ recv_old' = [recv_old EXCEPT ![FirstFree(recv_pc, RecvIds)] = FALSE]
    /\ tcp_signals' = {"connected"}
    /\ call_pc' = "idle"
    /\ UNCHANGED <<tcp_is_connected, tcp_running, tcp_auto_reconnect, tcp_socket,
                   tcp_reconnect_thread, call_in_connect, rc_pc, rc_retry,
                   rc_from_connect, rc_reported, since_fail_clean, awaiting_reconnect,
                   disc_requested, rc_extra>>

\* connect(), lines 46-53
connect_refused ==
    /\ call_pc = "c_refused"
    /\ tcp_signals' = {"connection_error", "disconnected"}
    /\ since_fail_clean' = tcp_auto_reconnect
    /\ call_pc' = "c_fcheck"
    /\ UNCHANGED <<tcp_is_connected, tcp_running, tcp_auto_reconnect, tcp_socket,
                   tcp_reconnect_thread, call_in_connect, recv_pc, rc_pc, rc_retry,
                   rc_from_connect, rc_reported, awaiting_reconnect, disc_requested,
                   recv_old, rc_extra>>

\* connect(), lines 73-80
connect_exception ==
    /\ call_pc = "c_exc"
    /\ tcp_is_connected' = FALSE
    /\ tcp_signals' = {"connection_error", "disconnected"}
    /\ since_fail_clean' = tcp_auto_reconnect
    /\ call_pc' = "c_fcheck"
    /\ UNCHANGED <<tcp_running, tcp_auto_reconnect, tcp_socket, tcp_reconnect_thread,
                   call_in_connect, recv_pc, rc_pc, rc_retry, rc_from_connect,
                   rc_reported, awaiting_reconnect, disc_requested, recv_old, rc_extra>>

\* connect(), lines 56 and 83
connect_fail_check ==
    /\ call_pc = "c_fcheck"
    /\ call_pc' = IF tcp_auto_reconnect /\ tcp_reconnect_thread = "None" THEN "c_fspawn" ELSE "idle"
    /\ tcp_signals' = {}
    /\ UNCHANGED <<tcp_is_connected, tcp_running, tcp_auto_reconnect, tcp_socket,
                   tcp_reconnect_thread, call_in_connect, recv_pc, rc_pc, rc_retry,
                   rc_from_connect, rc_reported, since_fail_clean, awaiting_reconnect,
                   disc_requested, recv_old, rc_extra>>

\* connect(), lines 57-60 and 84-87: the thread is started; one started while
\* every place of rc_pc is taken is counted in rc_extra
connect_start_reconnect ==
    /\ call_pc = "c_fspawn"
    /\ tcp_reconnect_thread' = "Thread"
    /\ IF HasFree(rc_pc, ReconnIds)
       THEN /\ rc_pc' = [rc_pc EXCEPT ![FirstFree(rc_pc, ReconnIds)] = "check"]
            /\ rc_from_connect' = [rc_from_connect EXCEPT ![FirstFree(rc_pc, ReconnIds)] = TRUE]
            /\ UNCHANGED rc_extra
       ELSE /\ rc_extra' = TRUE
            /\ UNCHANGED <<rc_pc, rc_from_connect>>
    /\ call_pc' = "idle"
    /\ tcp_signals' = {}
    /\ UNCHANGED <<tcp_is_connected, tcp_running, tcp_auto_reconnect, tcp_socket,
                   call_in_connect, recv_pc, rc_retry, rc_reported, since_fail_clean,
                   awaiting_reconnect, disc_requested, recv_old>>

\* set_auto_reconnect, lines 211-215
set_auto_reconnect(enabled) ==
    /\ call_pc = "idle"
    /\ tcp_auto_reconnect' = enabled
    /\ awaiting_reconnect' = FALSE
    /\ since_fail_clean' = FALSE
    /\ tcp_signals' = {}
    /\ UNCHANGED <<tcp_is_connected, tcp_running, tcp_socket, tcp_reconnect_thread,
                   call_pc, call_in_connect, recv_pc, rc_pc, rc_retry, rc_from_connect,
                   rc_reported, disc_requested, recv_old, rc_extra>>

\* _receive_data, line 107
receive_loop(t) ==
    /\ recv_pc[t] = "loop"
    /\ recv_pc' = [recv_pc EXCEPT ![t] = IF tcp_running /\ tcp_is_connected THEN "recv" ELSE "exit"]
    /\ tcp_signals' = {}
    /\ UNCHANGED <<tcp_is_connected, tcp_running, tcp_auto_reconnect, tcp_socket,
                   tcp_reconnect_thread, call_pc, call_in_connect, rc_pc, rc_retry,
                   rc_from_connect, rc_reported, since_fail_clean, awaiting_reconnect,
                   disc_requested, recv_old, rc_extra>>

\* _receive_data, lines 109-122: recv on the client's socket returns data, times
\* out, returns no bytes (the peer closed), or raises
receive_recv(t) ==
    /\ recv_pc[t] = "recv"
    /\ \/ /\ tcp_socket = "conn"
          /\ \E sig \in {{}, {"data_received"}} : tcp_signals' = sig
          /\ recv_pc' = [recv_pc EXCEPT ![t] = "loop"]
          /\ UNCHANGED <<tcp_is_connected, awaiting_reconnect>>
       \/ /\ tcp_socket = "peer_closed"
          /\ tcp_is_connected' = FALSE
          /\ tcp_signals' = {"disconnected"}
          /\ awaiting_reconnect' = (tcp_auto_reconnect /\ ~disc_requested /\ call_pc = "idle")
          /\ recv_pc' = [recv_pc EXCEPT ![t] = "exit"]
       \/ /\ tcp_socket # "conn"
          /\ tcp_signals' = {}
          /\ recv_pc' = [recv_pc EXCEPT ![t] = "exc"]
          /\ UNCHANGED <<tcp_is_connected, awaiting_reconnect>>
    /\ UNCHANGED <<tcp_running, tcp_auto_reconnect, tcp_socket, tcp_reconnect_thread,
                   call_pc, call_in_connect, rc_pc, rc_retry, rc_from_connect,
                   rc_reported, since_fail_clean, disc_requested, recv_old, rc_extra>>

\* _receive_data, lines 122-129
receive_exception(t) ==
    /\ recv_pc[t] = "exc"
    /\ IF tcp_running
       THEN tcp_is_connected' = FALSE /\ tcp_signals' = {"connection_error", "disconnected"}
       ELSE UNCHANGED tcp_is_connected /\ tcp_signals' = {}
    /\ recv_pc' = [recv_pc EXCEPT ![t] = "exit"]
    /\ UNCHANGED <<tcp_running, tcp_auto_reconnect, tcp_socket, tcp_reconnect_thread,
                   call_pc, call_in_connect, rc_pc, rc_retry, rc_from_connect,
                   rc_reported, since_fail_clean, awaiting_reconnect, disc_requested,
                   recv_old, rc_extra>>

\* _receive_data, line 132
receive_exit(t) ==
    /\ recv_pc[t] = "exit"
    /\ recv_pc' = [recv_pc EXCEPT ![t] =
           IF tcp_auto_reconnect /\ tcp_running /\ ~tcp_is_connected /\ tcp_reconnect_thread = "None"
           THEN "spawn" ELSE "free"]
    /\ recv_old' = [recv_old EXCEPT ![t] = @ /\ recv_pc'[t] # "free"]
    /\ tcp_signals' = {}
    /\ UNCHANGED <<tcp_is_connected, tcp_running, tcp_auto_reconnect, tcp_socket,
                   tcp_reconnect_thread, call_pc, call_in_connect, rc_pc, rc_retry,
                   rc_from_connect, rc_reported, since_fail_clean, awaiting_reconnect,
                   disc_requested, rc_extra>>

\* _receive_data, lines 133-135: the thread is started; one started while every
\* place of rc_pc is taken is counted in rc_extra
receive_start_reconnect(t) ==
    /\ recv_pc[t] = "spawn"
    /\ tcp_reconnect_thread' = "Thread"
    /\ IF HasFree(rc_pc, ReconnIds)
       THEN /\ rc_pc' = [rc_pc EXCEPT ![FirstFree(rc_pc, ReconnIds)] = "check"]
            /\ UNCHANGED rc_extra
       ELSE /\ rc_extra' = TRUE
            /\ UNCHANGED rc_pc
    /\ recv_pc' = [recv_pc EXCEPT ![t] = "free"]
    /\ recv_old' = [recv_old EXCEPT ![t] = FALSE]
    /\ tcp_signals' = {}
    /\ UNCHANGED <<tcp_is_connected, tcp_running, tcp_auto_reconnect, tcp_socket,
                   call_pc, call_in_connect, rc_retry, rc_from_connect, rc_reported,
                   since_fail_clean, awaiting_reconnect, disc_requested>>

\* a retry loop that does not look at auto_reconnect
reconnect_check_always(r) ==
    /\ rc_pc[r] = "check"
    /\ IF tcp_running /\ ~tcp_is_connected /\ rc_retry[r] < max_retries
       THEN /\ rc_retry' = [rc_retry EXCEPT ![r] = @ + 1]
            /\ rc_pc' = [rc_pc EXCEPT ![r] = "newsock"]
            /\ awaiting_reconnect' = FALSE
            /\ tcp_signals' = {"log_message"}
       ELSE /\ rc_pc' = [rc_pc EXCEPT ![r] = "final"]
            /\ tcp_signals' = {}
            /\ UNCHANGED <<rc_retry, awaiting_reconnect>>
    /\ UNCHANGED <<tcp_is_connected, tcp_running, tcp_auto_reconnect, tcp_socket,
                   tcp_reconnect_thread, call_pc, call_in_connect, recv_pc,
                   rc_from_connect, rc_reported, since_fail_clean, disc_requested,
                   recv_old, rc_extra>>

\* _auto_reconnect, lines 142-146
reconnect_check(r) ==
    /\ rc_pc[r] = "check"
    /\ IF tcp_auto_reconnect /\ tcp_running /\ ~tcp_is_connected /\ rc_retry[r] < max_retries
       THEN /\ rc_retry' = [rc_retry EXCEPT ![r] = @ + 1]
            /\ rc_pc' = [rc_pc EXCEPT ![r] = "newsock"]
            /\ awaiting_reconnect' = FALSE
            /\ tcp_signals' = {"log_message"}
       ELSE /\ rc_pc' = [rc_pc EXCEPT ![r] = "final"]
            /\ tcp_signals' = {}
            /\ UNCHANGED <<rc_retry, awaiting_reconnect>>
    /\ UNCHANGED <<tcp_is_connected, tcp_running, tcp_auto_reconnect, tcp_socket,
                   tcp_reconnect_thread, call_pc, call_in_connect, recv_pc,
                   rc_from_connect, rc_reported, since_fail_clean, disc_requested,
                   recv_old, rc_extra>>

\* _auto_reconnect, lines 150-157: the old socket is closed, a new one made
reconnect_socket(r) ==
    /\ rc_pc[r] = "newsock"
    /\ tcp_socket' = "new"
    /\ rc_pc' = [rc_pc EXCEPT ![r] = "connect"]
    /\ tcp_signals' = {}
    /\ UNCHANGED <<tcp_is_connected, tcp_running, tcp_auto_reconnect,
                   tcp_reconnect_thread, call_pc, call_in_connect, recv_pc, rc_retry,
                   rc_from_connect, rc_reported, since_fail_clean, awaiting_reconnect,
                   disc_requested, recv_old, rc_extra>>

\* _auto_reconnect, lines 158, 173-183: socket.connect succeeds, or fails and the
\* thread sleeps reconnect_interval seconds
reconnect_connect(r) ==
    /\ rc_pc[r] = "connect"
    /\ \/ /\ tcp_socket = "new"
          /\ tcp_socket' = "conn"
          /\ rc_pc' = [rc_pc EXCEPT ![r] = "setconn"]
          /\ since_fail_clean' = FALSE
          /\ tcp_signals' = {}
          /\ recv_old' = [t \in RecvIds |-> recv_pc[t] # "free"]
       \/ /\ rc_pc' = [rc_pc EXCEPT ![r] = "check"]
          /\ tcp_signals' = {"log_message"}
          /\ UNCHANGED <<tcp_socket, since_fail_clean, recv_old>>
    /\ UNCHANGED <<tcp_is_connected, tcp_running, tcp_auto_reconnect,
                   tcp_reconnect_thread, call_pc, call_in_connect, recv_pc, rc_retry,
                   rc_from_connect, rc_reported, awaiting_reconnect, disc_requested,
                   rc_extra>>

\* _auto_reconnect, line 160
reconnect_set_connected(r) ==
    /\ rc_pc[r] = "setconn"
    /\ tcp_is_connected' = TRUE
    /\ rc_pc' = [rc_pc EXCEPT ![r] = "setrun"]
    /\ tcp_signals' = {}
    /\ UNCHANGED <<tcp_running, tcp_auto_reconnect, tcp_socket, tcp_reconnect_thread,
                   call_pc, call_in_connect, recv_pc, rc_retry, rc_from_connect,
                   rc_reported, since_fail_clean, awaiting_reconnect, disc_requested,
                   recv_old, rc_extra>>

\* _auto_reconnect, line 161
reconnect_set_running(r) ==
    /\ rc_pc[r] = "setrun"
    /\ tcp_running' = TRUE
    /\ rc_pc' = [rc_pc EXCEPT ![r] = "spawn"]
    /\ tcp_signals' = {}
    /\ UNCHANGED <<tcp_is_connected, tcp_auto_reconnect, tcp_socket,
                   tcp_reconnect_thread, call_pc, call_in_connect, recv_pc, rc_retry,
                   rc_from_connect, rc_reported, since_fail_clean, awaiting_reconnect,
                   disc_requested, recv_old, rc_extra>>

\* _auto_reconnect, lines 164-172
reconnect_start_receive(r) ==
    /\ rc_pc[r] = "spawn"
    /\ HasFree(recv_pc, RecvIds)
    /\ recv_pc' = [recv_pc EXCEPT ![FirstFree(recv_pc, RecvIds)] = "loop"]
    /\ recv_old' = [recv_old EXCEPT ![FirstFree(recv_pc, RecvIds)] = FALSE]
    /\ rc_pc' = [rc_pc EXCEPT ![r] = "final"]
    /\ tcp_signals' = {"connected", "log_message"}
    /\ UNCHANGED <<tcp_is_connected, tcp_running, tcp_auto_reconnect, tcp_socket,
                   tcp_reconnect_thread, call_pc, call_in_connect, rc_retry,
                   rc_from_connect, rc_reported, since_fail_clean, awaiting_reconnect,
                   disc_requested, rc_extra>>

\* _auto_reconnect, lines 185-191
reconnect_final(r) ==
    /\ rc_pc[r] = "final"
    /\ IF rc_retry[r] >= max_retries /\ ~tcp_is_connected
       THEN /\ tcp_signals' = {"connection_error", "log_message", "disconnected"}
            /\ rc_reported' = [rc_reported EXCEPT ![r] = TRUE]
       ELSE /\ tcp_signals' = {}
            /\ UNCHANGED rc_reported
    /\ rc_pc' = [rc_pc EXCEPT ![r] = "clear"]
    /\ UNCHANGED <<tcp_is_connected, tcp_running, tcp_auto_reconnect, tcp_socket,
                   tcp_reconnect_thread, call_pc, call_in_connect, recv_pc, rc_retry,
                   rc_from_connect, since_fail_clean, awaiting_reconnect,
                   disc_requested, recv_old, rc_extra>>

\* _auto_reconnect, line 193, and the end of the thread
reconnect_clear(r) ==
    /\ rc_pc[r] = "clear"
    /\ tcp_reconnect_thread' = "None"
    /\ rc_pc' = [rc_pc EXCEPT ![r] = "free"]
    /\ rc_retry' = [rc_retry EXCEPT ![r] = 0]
    /\ rc_from_connect' = [rc_from_connect EXCEPT ![r] = FALSE]
    /\ rc_reported' = [rc_reported EXCEPT ![r] = FALSE]
    /\ tcp_signals' = {}
    /\ UNCHANGED <<tcp_is_connected, tcp_running, tcp_auto_reconnect, tcp_socket,
                   call_pc, call_in_connect, recv_pc, since_fail_clean,
                   awaiting_reconnect, disc_requested, recv_old, rc_extra>>

\* the server closes the connection
peer_closes ==
    /\ tcp_socket = "conn"
    /\ tcp_socket' = "peer_closed"
    /\ tcp_signals' = {}
    /\ UNCHANGED <<tcp_is_connected, tcp_running, tcp_auto_reconnect,
                   tcp_reconnect_thread, call_pc, call_in_connect, recv_pc, rc_pc,
                   rc_retry, rc_from_connect, rc_reported, since_fail_clean,
                   awaiting_reconnect, disc_requested, recv_old, rc_extra>>

\* a second _auto_reconnect thread, started while the first was alive, comes to
\* its end: line 193.  Its attempts are not followed.
reconnect_extra_ends ==
    /\ rc_extra
    /\ rc_extra' = FALSE
    /\ tcp_reconnect_thread' = "None"
    /\ tcp_signals' = {}
    /\ UNCHANGED <<tcp_is_connected, tcp_running, tcp_auto_reconnect, tcp_socket, call_pc,
                   call_in_connect, recv_pc, rc_pc, rc_retry, rc_from_connect, rc_reported,
                   since_fail_clean, awaiting_reconnect, disc_requested, recv_old>>

NextTcp ==
    \/ connect_check /\ UNCHANGED notTcp
    \/ disconnect_run /\ UNCHANGED notTcp
    \/ disconnect_close /\ UNCHANGED notTcp
    \/ disconnect_none /\ UNCHANGED notTcp
    \/ disconnect_done /\ UNCHANGED notTcp
    \/ connect_socket /\ UNCHANGED notTcp
    \/ connect_connect /\ UNCHANGED notTcp
    \/ connect_set_connected /\ UNCHANGED notTcp
    \/ connect_set_running /\ UNCHANGED notTcp
    \/ connect_start_receive /\ UNCHANGED notTcp
    \/ connect_refused /\ UNCHANGED notTcp
    \/ connect_exception /\ UNCHANGED notTcp
    \/ connect_fail_check /\ UNCHANGED notTcp
    \/ connect_start_reconnect /\ UNCHANGED notTcp
    \/ \E enabled \in BOOLEAN : set_auto_reconnect(enabled) /\ UNCHANGED notTcp
    \/ \E t \in RecvIds : receive_loop(t) /\ UNCHANGED notTcp
    \/ \E t \in RecvIds : receive_recv(t) /\ UNCHANGED notTcp
    \/ \E t \in RecvIds : receive_exception(t) /\ UNCHANGED notTcp
    \/ \E t \in RecvIds : receive_exit(t) /\ UNCHANGED notTcp
    \/ \E t \in RecvIds : receive_start_reconnect(t) /\ UNCHANGED notTcp
    \/ \E r \in ReconnIds : reconnect_check(r) /\ UNCHANGED notTcp
    \/ \E r \in ReconnIds : reconnect_socket(r) /\ UNCHANGED notTcp
    \/ \E r \in ReconnIds : reconnect_connect(r) /\ UNCHANGED notTcp
    \/ \E r \in ReconnIds : reconnect_set_connected(r) /\ UNCHANGED notTcp
    \/ \E r \in ReconnIds : reconnect_set_running(r) /\ UNCHANGED notTcp
    \/ \E r \in ReconnIds : reconnect_start_receive(r) /\ UNCHANGED notTcp
    \/ \E r \in ReconnIds : reconnect_final(r) /\ UNCHANGED notTcp
    \/ \E r \in ReconnIds : reconnect_clear(r) /\ UNCHANGED notTcp
    \/ peer_closes /\ UNCHANGED notTcp
    \/ reconnect_extra_ends /\ UNCHANGED notTcp


----------------------------------------------------------------------------
(* EEGParser._parse_frame called directly on a byte span.                  *)

\* the spans: frames as the parser expects them, and the same with one of the
\* sentinel bytes replaced, a byte missing, a byte added, or nothing at all
SetByte(span, i, b) == [span EXCEPT ![i] = b]
OtherBytes == {0, 160, 192, 255}
GoodSpans == {TakeN(PackData(v), expected_length) : v \in SampleVectors \cup {VecRange}}
DecodeSpans ==
    GoodSpans
    \cup {SetByte(g, i, b) : g \in GoodSpans, i \in {1, 2, expected_length}, b \in OtherBytes}
    \cup {TakeN(g, expected_length - 1) : g \in GoodSpans}
    \cup {g \o <<0>> : g \in GoodSpans}
    \cup {<<>>, frame_header, frame_header \o frame_footer}

InitDecode ==
    /\ dec_span = <<>>
    /\ dec_done = FALSE
    /\ dec_result = <<>>

\* a span to parse
take_span(span) ==
    /\ dec_span' = span
    /\ dec_done' = FALSE
    /\ dec_result' = <<>>

\* _parse_frame(dec_span)
parse_frame ==
    /\ ~dec_done
    /\ dec_result' = ParseFrame(dec_span)
    /\ dec_done' = TRUE
    /\ UNCHANGED dec_span

NextDecode ==
    \/ \E span \in DecodeSpans : take_span(span) /\ UNCHANGED notDecode
    \/ parse_frame /\ UNCHANGED notDecode

----------------------------------------------------------------------------
(* EEGParser.process_data, the while loop taken one iteration at a time.   *)

\* line 73: a header whose footer is at the wrong distance is skipped
SkipHeaderNothing(buf) == buf
SkipHeader(buf) == DropN(buf, Len(frame_header))

\* lines 32-87: one iteration of the while loop: the buffer it leaves, the
\* samples it emits (none or one), whether the loop goes on (continue, or the
\* end of the body) and whether it skipped a header
LoopStep(buf) ==
    LET h == Find(buf, frame_header, 1)
        stop(b, d) == [buffer |-> b, emitted |-> <<>>, again |-> FALSE, skipped |-> FALSE,
                       desync |-> d]
    IN  IF h = 0 THEN stop(KeepTail(buf), FALSE)
        ELSE
        LET b1 == DropN(buf, h - 1)
        IN  IF Len(b1) < expected_length THEN stop(b1, FALSE)
            ELSE
            LET f == Find(b1, frame_footer, Len(frame_header) + 1)
            IN  IF f = 0 THEN stop(Desync(b1), TRUE)
                ELSE
                LET frame_length == f + Len(frame_footer) - 1
                IN  IF frame_length # expected_length
                    THEN [buffer |-> SkipHeader(b1), emitted |-> <<>>,
                          again |-> TRUE, skipped |-> TRUE, desync |-> FALSE]
                    ELSE [buffer |-> DropN(b1, frame_length),
                          emitted |-> ParseFrame(TakeN(b1, frame_length)),
                          again |-> TRUE, skipped |-> FALSE, desync |-> FALSE]

\* the sizes of the chunks process_data is called with, among them the empty
\* chunk and one that ends a few bytes into the segment after a long run
FeedSizes == {0, expected_length + 1, JunkLen + 10}

InitFeed ==
    /\ feed_pc = "idle"
    /\ feed_iters = 0
    /\ feed_skipped = FALSE
    /\ feed_base = 0
    /\ feed_len = 0
    /\ frames_processed = 0
    /\ feed_ret = -1
    /\ feed_desync = -1

\* process_data(data), lines 25-29: the next n bytes of the stream (n may be 0)
feed_call(n) ==
    /\ feed_pc = "idle"
    /\ pos + n <= Len(stream)
    /\ buffer' = buffer \o SubSeq(stream, pos + 1, pos + n)
    /\ pos' = pos + n
    /\ split' = (pos > 0)
    /\ feed_pc' = "loop"
    /\ feed_iters' = 0
    /\ feed_skipped' = FALSE
    /\ feed_base' = Len(emitted)
    /\ feed_len' = Len(buffer) + n
    /\ frames_processed' = 0
    /\ feed_ret' = -1
    /\ UNCHANGED <<segs, stream, emitted, feed_desync>>

\* lines 30-89: one iteration; a break is followed by the return at line 89
feed_iteration ==
    /\ feed_pc = "loop"
    /\ LET r == LoopStep(buffer)
       IN  /\ buffer' = r.buffer
           /\ emitted' = emitted \o r.emitted
           /\ feed_iters' = feed_iters + 1
           /\ feed_skipped' = (feed_skipped \/ r.skipped)
           /\ frames_processed' = frames_processed + Len(r.emitted)
           /\ feed_pc' = IF r.again THEN "loop" ELSE "idle"
           /\ feed_ret' = IF r.again THEN -1 ELSE frames_processed
           /\ feed_desync' = IF r.desync THEN pos ELSE feed_desync
    /\ UNCHANGED <<segs, stream, pos, split, feed_base, feed_len>>

NextFeed ==
    \/ \E n \in FeedSizes \cup {Len(stream) - pos} : feed_call(n) /\ UNCHANGED notFeed
    \/ feed_iteration /\ UNCHANGED notFeed

----------------------------------------------------------------------------
(* WebSocketClient (EEG_RE/src/models/websocket_client.py).  connect() and *)
(* disconnect() run on the caller's thread, _run_client on the client      *)
(* thread that owns the event loop, _auto_reconnect on the reconnect       *)
(* thread, which calls connect() itself.  The calls of connect() are taken *)
(* one at a time, and _cleanup_resources as one step: the loop it stops    *)
(* makes the client thread run its finally block, and the join that        *)
(* follows waits for it.                                                   *)

ws_max_retries == 10

InitWs ==
    /\ ws_is_connected = FALSE
    /\ ws_running = FALSE
    /\ ws_auto_reconnect = TRUE
    /\ ws_websocket = "None"
    /\ ws_loop = "None"
    /\ ws_client = "none"
    /\ ws_reconnect_thread = "None"
    /\ ws_pending_send = FALSE
    /\ wcall_pc = "idle"
    /\ wrc_pc = "free"
    /\ wrc_retry = 0
    /\ ws_signals = {}
    /\ ws_lost = FALSE
    /\ ws_send_failed = FALSE

\* the event loop is running: the client thread is inside run_until_complete
\* (line 165) or run_forever (line 168)
LoopRunning == ws_loop = "open" /\ ws_client \in {"connecting", "receiving", "parked"}

\* lines 174-209: stopping the loop sends the client thread through its
\* finally block, which emits disconnected and starts the reconnect thread if
\* auto_reconnect is set and there is none
FinallyStartsReconnect == LoopRunning /\ ws_auto_reconnect /\ ws_reconnect_thread = "None"

\* the client thread is not between its start and line 164
ClientSettled == ws_client # "started"

\* connect(), lines 33-53, called by the user: a connected client is disconnected
\* first, what is left of an earlier connection is cleaned up, a new loop is
\* made and the client thread started
ws_connect ==
    /\ wcall_pc = "idle" /\ wrc_pc \notin {"wait"}
    /\ ClientSettled
    /\ ws_loop' = "open"
    /\ ws_client' = "started"
    /\ ws_websocket' = "None"
    /\ ws_is_connected' = FALSE
    /\ ws_running' = FALSE
    /\ ws_pending_send' = FALSE
    /\ IF FinallyStartsReconnect
       THEN ws_reconnect_thread' = "set" /\ wrc_pc' = "check" /\ wrc_retry' = 0
       ELSE UNCHANGED <<ws_reconnect_thread, wrc_pc, wrc_retry>>
    /\ ws_signals' = IF ws_is_connected \/ LoopRunning THEN {"disconnected"} ELSE {}
    /\ wcall_pc' = "wait"
    /\ ws_lost' = FALSE /\ ws_send_failed' = FALSE
    /\ UNCHANGED <<ws_auto_reconnect>>

\* connect(), lines 55-74: the wait for is_connected, at most 5 seconds; when
\* they are over, connection_error, the clean-up, and the reconnect thread is
\* started if auto_reconnect is set and there is none
ws_connect_wait ==
    /\ wcall_pc = "wait"
    /\ wcall_pc' = "idle"
    /\ IF ws_is_connected
       THEN /\ ws_signals' = {}
            /\ UNCHANGED <<ws_loop, ws_client, ws_websocket, ws_is_connected, ws_running,
                           ws_pending_send, ws_reconnect_thread, wrc_pc, wrc_retry>>
       ELSE /\ ClientSettled
            /\ ws_loop' = "None"
            /\ ws_client' = "none"
            /\ ws_websocket' = "None"
            /\ ws_is_connected' = FALSE
            /\ ws_running' = FALSE
            /\ ws_pending_send' = FALSE
            /\ ws_signals' = {"connection_error"} \cup
                             (IF LoopRunning THEN {"disconnected"} ELSE {})
            /\ IF ws_auto_reconnect /\ ws_reconnect_thread = "None"
               THEN ws_reconnect_thread' = "set" /\ wrc_pc' = "check" /\ wrc_retry' = 0
               ELSE UNCHANGED <<ws_reconnect_thread, wrc_pc, wrc_retry>>
    /\ UNCHANGED <<ws_auto_reconnect, ws_lost, ws_send_failed>>

\* disconnect(), lines 131-145: nothing when not connected; else running is
\* cleared, the resources cleaned up and disconnected emitted
ws_disconnect ==
    /\ wcall_pc = "idle" /\ wrc_pc \notin {"wait"}
    /\ ClientSettled
    /\ IF ~ws_is_connected
       THEN /\ ws_signals' = {}
            /\ UNCHANGED <<ws_loop, ws_client, ws_websocket, ws_is_connected, ws_running,
                           ws_pending_send, ws_reconnect_thread, wrc_pc, wrc_retry,
                           ws_lost, ws_send_failed>>
       ELSE
            /\ ws_loop' = "None"
            /\ ws_client' = "none"
            /\ ws_websocket' = "None"
            /\ ws_is_connected' = FALSE
            /\ ws_running' = FALSE
            /\ ws_pending_send' = FALSE
            /\ IF FinallyStartsReconnect
               THEN ws_reconnect_thread' = "set" /\ wrc_pc' = "check" /\ wrc_retry' = 0
               ELSE UNCHANGED <<ws_reconnect_thread, wrc_pc, wrc_retry>>
            /\ ws_signals' = {"disconnected"}
            /\ ws_lost' = FALSE /\ ws_send_failed' = FALSE
    /\ UNCHANGED <<ws_auto_reconnect, wcall_pc>>

\* set_auto_reconnect, lines 358-360
ws_set_auto_reconnect(enabled) ==
    /\ wcall_pc = "idle"
    /\ ws_auto_reconnect' = enabled
    /\ ws_lost' = (ws_lost /\ enabled)
    /\ ws_send_failed' = (ws_send_failed /\ enabled)
    /\ ws_signals' = {}
    /\ UNCHANGED <<ws_is_connected, ws_running, ws_websocket, ws_loop, ws_client,
                   ws_reconnect_thread, ws_pending_send, wcall_pc, wrc_pc, wrc_retry>>

\* _run_client, lines 160-165: running is set before the connection is tried
client_run ==
    /\ ws_client = "started"
    /\ ws_running' = TRUE
    /\ ws_client' = "connecting"
    /\ ws_signals' = {}
    /\ UNCHANGED <<ws_is_connected, ws_auto_reconnect, ws_websocket, ws_loop,
                   ws_reconnect_thread, ws_pending_send, wcall_pc, wrc_pc, wrc_retry,
                   ws_lost, ws_send_failed>>

\* _connect_to_server, lines 215-223: the server accepts
client_connected ==
    /\ ws_client = "connecting"
    /\ ws_websocket' = "open"
    /\ ws_is_connected' = TRUE
    /\ ws_client' = "receiving"
    /\ ws_signals' = {"connected"}
    /\ UNCHANGED <<ws_running, ws_auto_reconnect, ws_loop, ws_reconnect_thread,
                   ws_pending_send, wcall_pc, wrc_pc, wrc_retry, ws_lost,
                   ws_send_failed>>

\* _connect_to_server, lines 224-229, then line 168: the connection fails, the
\* error is reported and the thread goes on to run_forever
client_refused ==
    /\ ws_client = "connecting"
    /\ ws_is_connected' = FALSE
    /\ ws_client' = "parked"
    /\ ws_signals' = {"connection_error"}
    /\ ws_lost' = ws_auto_reconnect
    /\ UNCHANGED <<ws_running, ws_auto_reconnect, ws_websocket, ws_loop,
                   ws_reconnect_thread, ws_pending_send, wcall_pc, wrc_pc, wrc_retry,
                   ws_send_failed>>

\* _receive_messages, lines 231-251, then line 168: the peer closes; after a
\* normal close the iteration just ends, otherwise ConnectionClosed is raised
\* and is_connected cleared; either way the thread goes on to run_forever
peer_closes_ws(normal) ==
    /\ ws_client = "receiving"
    /\ ws_websocket' = "closed"
    /\ ws_is_connected' = (ws_is_connected /\ normal)
    /\ ws_client' = "parked"
    /\ ws_signals' = {}
    /\ ws_lost' = ws_auto_reconnect
    /\ UNCHANGED <<ws_running, ws_auto_reconnect, ws_loop, ws_reconnect_thread,
                   ws_pending_send, wcall_pc, wrc_pc, wrc_retry, ws_send_failed>>

\* send_data, lines 294-336: refused without a connection, a websocket and an
\* open loop; else _safe_send is scheduled on the loop
ws_send_data ==
    /\ wcall_pc = "idle"
    /\ ~ws_pending_send
    /\ ws_pending_send' = (ws_is_connected /\ ws_websocket # "None" /\ ws_loop = "open")
    /\ ws_signals' = {}
    /\ UNCHANGED <<ws_is_connected, ws_running, ws_auto_reconnect, ws_websocket,
                   ws_loop, ws_client, ws_reconnect_thread, wcall_pc, wrc_pc,
                   wrc_retry, ws_lost, ws_send_failed>>

\* _safe_send, lines 338-356, on the loop: nothing without a connection; the
\* send succeeds, or fails on a closed connection
safe_send ==
    /\ ws_pending_send /\ LoopRunning
    /\ ws_pending_send' = FALSE
    /\ IF ws_websocket = "None" \/ ~ws_is_connected \/ ws_websocket = "open"
       THEN /\ ws_signals' = {}
            /\ UNCHANGED <<ws_is_connected, ws_send_failed>>
       ELSE /\ ws_is_connected' = FALSE
            /\ ws_signals' = {"disconnected"}
            /\ ws_send_failed' = ws_auto_reconnect
    /\ UNCHANGED <<ws_running, ws_auto_reconnect, ws_websocket, ws_loop, ws_client,
                   ws_reconnect_thread, wcall_pc, wrc_pc, wrc_retry, ws_lost>>

\* _auto_reconnect, lines 268-272 and 280-284: the loop condition, after the
\* sleep when it is not the first time
ws_reconnect_check ==
    /\ wrc_pc = "check"
    /\ IF ws_auto_reconnect /\ ws_running /\ ~ws_is_connected /\ wrc_retry < ws_max_retries
       THEN /\ wrc_retry' = wrc_retry + 1
            /\ wrc_pc' = "attempt"
            /\ ws_signals' = {"log_attempt"}
            /\ ws_lost' = FALSE /\ ws_send_failed' = FALSE
       ELSE /\ wrc_pc' = "final"
            /\ ws_signals' = {}
            /\ UNCHANGED <<wrc_retry, ws_lost, ws_send_failed>>
    /\ UNCHANGED <<ws_is_connected, ws_running, ws_auto_reconnect, ws_websocket,
                   ws_loop, ws_client, ws_reconnect_thread, ws_pending_send, wcall_pc>>

\* _auto_reconnect, line 275: connect() on the reconnect thread, lines 33-53
ws_reconnect_attempt ==
    /\ wrc_pc = "attempt" /\ wcall_pc = "idle"
    /\ ClientSettled
    /\ ws_loop' = "open"
    /\ ws_client' = "started"
    /\ ws_websocket' = "None"
    /\ ws_is_connected' = FALSE
    /\ ws_running' = FALSE
    /\ ws_pending_send' = FALSE
    /\ ws_signals' = IF ws_is_connected \/ LoopRunning THEN {"disconnected"} ELSE {}
    /\ wrc_pc' = "wait"
    /\ UNCHANGED <<ws_auto_reconnect, ws_reconnect_thread, wcall_pc, wrc_retry,
                   ws_lost, ws_send_failed>>

\* _auto_reconnect, line 275: connect() on the reconnect thread, lines 55-74, and
\* lines 278-279
ws_reconnect_wait ==
    /\ wrc_pc = "wait"
    /\ IF ws_is_connected
       THEN /\ wrc_pc' = "final"
            /\ ws_signals' = {}
            /\ UNCHANGED <<ws_loop, ws_client, ws_websocket, ws_is_connected, ws_running,
                           ws_pending_send>>
       ELSE /\ ClientSettled
            /\ ws_loop' = "None"
            /\ ws_client' = "none"
            /\ ws_websocket' = "None"
            /\ ws_is_connected' = FALSE
            /\ ws_running' = FALSE
            /\ ws_pending_send' = FALSE
            /\ ws_signals' = {"connection_error"} \cup
                             (IF LoopRunning THEN {"disconnected"} ELSE {})
            /\ wrc_pc' = "check"
    /\ UNCHANGED <<ws_auto_reconnect, ws_reconnect_thread, wcall_pc, wrc_retry,
                   ws_lost, ws_send_failed>>

\* _auto_reconnect, lines 284-292
ws_reconnect_final ==
    /\ wrc_pc = "final"
    /\ ws_signals' = IF wrc_retry >= ws_max_retries /\ ~ws_is_connected
                     THEN {"connection_error", "log_exhausted", "disconnected"} ELSE {}
    /\ ws_reconnect_thread' = "None"
    /\ wrc_pc' = "free"
    /\ UNCHANGED <<ws_is_connected, ws_running, ws_auto_reconnect, ws_websocket,
                   ws_loop, ws_client, ws_pending_send, wcall_pc, wrc_retry, ws_lost,
                   ws_send_failed>>

NextWs ==
    \/ ws_connect /\ UNCHANGED notWs
    \/ ws_connect_wait /\ UNCHANGED notWs
    \/ ws_disconnect /\ UNCHANGED notWs
    \/ \E enabled \in BOOLEAN : ws_set_auto_reconnect(enabled) /\ UNCHANGED notWs
    \/ client_run /\ UNCHANGED notWs
    \/ client_connected /\ UNCHANGED notWs
    \/ client_refused /\ UNCHANGED notWs
    \/ \E normal \in BOOLEAN : peer_closes_ws(normal) /\ UNCHANGED notWs
    \/ ws_send_data /\ UNCHANGED notWs
    \/ safe_send /\ UNCHANGED notWs
    \/ ws_reconnect_check /\ UNCHANGED notWs
    \/ ws_reconnect_attempt /\ UNCHANGED notWs
    \/ ws_reconnect_wait /\ UNCHANGED notWs
    \/ ws_reconnect_final /\ UNCHANGED notWs

----------------------------------------------------------------------------
(* DataBuffer.add_data on one thread and DataBuffer.get_data on another.   *)
(* The class takes no lock.  Each deque operation is one step; clear and   *)
(* set_max_points are taken here only while no add_data and no get_data is *)
(* in progress.                                                            *)

SnapSamples == {SampleA, SampleB}
SnapCapacities == {1, DefaultMaxPoints}
MaxSnapPushes == 2

InitSnap ==
    /\ push_pc = 0
    /\ push_vals = <<>>
    /\ snap_pc = 0
    /\ snap_channels = <<>>
    /\ snap_labels = <<>>
    /\ snap_time = <<>>
    /\ snap_done = FALSE

\* add_data, lines 31-58: the values are made ready and the time appended
push_begin(data) ==
    /\ push_pc = 0 /\ npush < MaxSnapPushes
    /\ HasKeys(data)
    /\ npush' = npush + 1
    /\ push_vals' = NormalChannels(data) \o NormalLabels(data)
    /\ current_time' = current_time + 1000 \div sampling_rate
    /\ time_buffer' = DequeAppend(time_buffer, current_time', max_points)
    /\ push_pc' = 1
    /\ UNCHANGED <<max_points, channel_buffers, label_buffers, sampling_rate,
                   snap_pc, snap_channels, snap_labels, snap_time, snap_done>>

\* add_data, lines 61-68: one append; after the last one add_data is over
push_store ==
    /\ push_pc > 0
    /\ IF push_pc <= channel_count
       THEN /\ channel_buffers' = [channel_buffers EXCEPT ![push_pc] =
                                      DequeAppend(@, push_vals[push_pc], max_points)]
            /\ UNCHANGED label_buffers
       ELSE /\ label_buffers' = [label_buffers EXCEPT ![push_pc - channel_count] =
                                    DequeAppend(@, push_vals[push_pc], max_points)]
            /\ UNCHANGED channel_buffers
    /\ push_pc' = IF push_pc = channel_count + label_count THEN 0 ELSE push_pc + 1
    /\ push_vals' = IF push_pc = channel_count + label_count THEN <<>> ELSE push_vals
    /\ UNCHANGED <<max_points, time_buffer, sampling_rate, current_time, npush,
                   snap_pc, snap_channels, snap_labels, snap_time, snap_done>>

\* get_data is called, line 73
snap_begin ==
    /\ snap_pc = 0
    /\ snap_pc' = 1
    /\ snap_channels' = <<>> /\ snap_labels' = <<>> /\ snap_time' = <<>>
    /\ snap_done' = FALSE
    /\ UNCHANGED <<max_points, channel_buffers, label_buffers, time_buffer, sampling_rate,
                   current_time, npush, push_pc, push_vals>>

\* get_data, lines 76-78: one np.array(buffer); after the time axis get_data
\* returns (lines 80-84)
snap_read ==
    /\ snap_pc > 0
    /\ IF snap_pc <= channel_count
       THEN /\ snap_channels' = Append(snap_channels, channel_buffers[snap_pc])
            /\ UNCHANGED <<snap_labels, snap_time>>
       ELSE IF snap_pc <= channel_count + label_count
       THEN /\ snap_labels' = Append(snap_labels, label_buffers[snap_pc - channel_count])
            /\ UNCHANGED <<snap_channels, snap_time>>
       ELSE /\ snap_time' = time_buffer
            /\ UNCHANGED <<snap_channels, snap_labels>>
    /\ snap_pc' = IF snap_pc = channel_count + label_count + 1 THEN 0 ELSE snap_pc + 1
    /\ snap_done' = (snap_pc = channel_count + label_count + 1)
    /\ UNCHANGED <<max_points, channel_buffers, label_buffers, time_buffer, sampling_rate,
                   current_time, npush, push_pc, push_vals>>

\* clear(), lines 102-109, with nothing else in progress
snap_clear ==
    /\ push_pc = 0 /\ snap_pc = 0
    /\ channel_buffers' = [i \in 1..channel_count |-> <<>>]
    /\ label_buffers' = [i \in 1..label_count |-> <<>>]
    /\ time_buffer' = <<>>
    /\ current_time' = 0
    /\ snap_done' = FALSE
    /\ UNCHANGED <<max_points, sampling_rate, npush, push_pc, push_vals, snap_pc,
                   snap_channels, snap_labels, snap_time>>

\* set_max_points(n), lines 116-137, with nothing else in progress
snap_resize(n) ==
    /\ push_pc = 0 /\ snap_pc = 0
    /\ n > 0 /\ n # max_points
    /\ max_points' = n
    /\ channel_buffers' = [i \in 1..channel_count |-> DequeOf(channel_buffers[i], n)]
    /\ label_buffers' = [i \in 1..label_count |-> DequeOf(label_buffers[i], n)]
    /\ time_buffer' = DequeOf(time_buffer, n)
    /\ snap_done' = FALSE
    /\ UNCHANGED <<sampling_rate, current_time, npush, push_pc, push_vals, snap_pc,
                   snap_channels, snap_labels, snap_time>>

NextSnap ==
    \/ \E d \in SnapSamples : push_begin(d) /\ UNCHANGED notSnap
    \/ push_store /\ UNCHANGED notSnap
    \/ snap_begin /\ UNCHANGED notSnap
    \/ snap_read /\ UNCHANGED notSnap
    \/ snap_clear /\ UNCHANGED notSnap
    \/ \E n \in SnapCapacities : snap_resize(n) /\ UNCHANGED notSnap

----------------------------------------------------------------------------
(* SineWaveGenerator.set_channel_params (signal_generator.py).  Parameters  *)
(* are floats: a finite one is Fin(v) with v in tenths (of a Hz, of a       *)
(* microvolt).                                                             *)

MaxParamCalls == 2
frequency_min == 1
frequency_max == 1000
amplitude_min == 0
amplitude_max == 10000
default_frequency == 100
default_amplitude == 1000

\* Python's x < y on floats: false whenever one side is a NaN
FloatLess(x, y) ==
    IF x.kind = "nan" \/ y.kind = "nan" THEN FALSE
    ELSE IF x.kind = "inf" THEN x.v < 0 /\ ~(y.kind = "inf" /\ y.v < 0)
    ELSE IF y.kind = "inf" THEN y.v > 0
    ELSE x.v < y.v

\* Python's min(a, b) and max(a, b): the first argument unless the second is
\* strictly smaller (larger)
PyMin(a, b) == IF FloatLess(b, a) THEN b ELSE a
PyMax(a, b) == IF FloatLess(a, b) THEN b ELSE a

\* a clamp that forgets the upper limit
ClampLowOnly(lo, hi, x) == PyMax(Fin(lo), x)
\* lines 80-81: max(lo, min(hi, x))
Clamp(lo, hi, x) == PyMax(Fin(lo), PyMin(Fin(hi), x))

ParamChannels == {-1, 0, 3, 7, 8}
ParamFrequencies == {Fin(0), Fin(505), Fin(frequency_max + 1), NaN, NegInf}
ParamAmplitudes == {Fin(-1), Fin(2500), Fin(amplitude_max + 1), NaN, PosInf}

\* SineWaveGenerator.__init__, lines 63-69
InitSine ==
    /\ frequencies = [i \in 1..8 |-> Fin(default_frequency)]
    /\ amplitudes = [i \in 1..8 |-> Fin(default_amplitude)]
    /\ sine_calls = 0
    /\ last_params = <<>>

\* set_channel_params(channel, frequency, amplitude), lines 71-81
set_channel_params(channel, frequency, amplitude) ==
    /\ sine_calls < MaxParamCalls
    /\ sine_calls' = sine_calls + 1
    /\ last_params' = [channel |-> channel, frequency |-> frequency, amplitude |-> amplitude]
    /\ IF 0 <= channel /\ channel < 8
       THEN /\ frequencies' = [frequencies EXCEPT ![channel + 1] =
                                  Clamp(frequency_min, frequency_max, frequency)]
            /\ amplitudes' = [amplitudes EXCEPT ![channel + 1] =
                                 Clamp(amplitude_min, amplitude_max, amplitude)]
       ELSE UNCHANGED <<frequencies, amplitudes>>

NextSine ==
    \E c \in ParamChannels, f \in ParamFrequencies, a \in ParamAmplitudes :
        set_channel_params(c, f, a) /\ UNCHANGED notSine

----------------------------------------------------------------------------
(* FileReplayGenerator (signal_generator.py): load_file, start, stop and    *)
(* one iteration of _generate_loop.  A table is a sequence of rows, a row a *)
(* sequence of floats.                                                     *)

MaxReplayEmits == 5

RowA == FinVec(<<1, 2, 3, 4, 5, 6, 7, 8>>)
RowB == FinVec(<<11, 12, 13, 14, 15, 16, 17, 18>>)
RowNaN == <<NaN>> \o FinVec(<<22, 23, 24, 25, 26, 27, 28>>)
RowInf == <<PosInf>> \o FinVec(<<32, 33, 34, 35, 36, 37, 38>>)
RowWide == FinVec(<<41, 42, 43, 44, 45, 46, 47, 48, 49>>)
RowNarrow == FinVec(<<51, 52, 53>>)
ReplayTables ==
    { <<RowA, RowB, RowNaN>>, <<RowInf, RowA>>, <<RowWide>>, <<RowNarrow, RowNarrow>>, <<>>,
      <<RowB, RowA>>, <<RowNaN, RowWide>>, <<RowB>>, <<RowA, RowInf, RowB>> }

\* lines 187-196: the first 8 values, padded with zeros, and numpy.nan_to_num
\* over the whole row when it holds a NaN
ReplayRow(row) ==
    LET cut == TakeN(row, 8)
        padded == cut \o [i \in 1..(8 - Len(cut)) |-> Fin(0)]
    IN  IF \E i \in 1..8 : isnan(padded[i])
        THEN [i \in 1..8 |-> nan_to_num(padded[i])]
        ELSE padded

\* FileReplayGenerator.__init__, lines 123-130
InitReplay ==
    /\ replay_data = [loaded |-> FALSE, rows |-> <<>>]
    /\ current_index = 0
    /\ replay_is_running = FALSE
    /\ replay_thread = "none"
    /\ replay_emitted = <<>>
    /\ replay_errors = FALSE

\* load_file(file_path), lines 132-160, called while the generator is stopped
\* (main_controller.py lines 105-109); self.data is assigned before the checks
load_file(table) ==
    /\ ~replay_is_running /\ replay_thread = "none"
    /\ replay_data' = [loaded |-> TRUE, rows |-> table]
    /\ replay_emitted' = <<>>
    /\ IF table = <<>> \/ Len(table[1]) < 8
       THEN /\ replay_errors' = TRUE
            /\ UNCHANGED current_index
       ELSE /\ current_index' = 0
            /\ replay_errors' = FALSE
    /\ UNCHANGED <<replay_is_running, replay_thread>>

\* start(), lines 29-46
replay_start ==
    /\ ~replay_is_running /\ replay_thread = "none"
    /\ replay_is_running' = TRUE
    /\ replay_thread' = "loop"
    /\ UNCHANGED <<replay_data, current_index, replay_emitted, replay_errors>>

\* stop(), lines 48-54: the flag is cleared and the thread, which sleeps no
\* longer than one interval, is joined
replay_stop ==
    /\ replay_is_running
    /\ replay_is_running' = FALSE
    /\ replay_thread' = "none"
    /\ UNCHANGED <<replay_data, current_index, replay_emitted, replay_errors>>

\* _generate_loop, lines 172-175: nothing loaded, or an empty table
replay_no_data ==
    /\ replay_thread = "loop" /\ replay_is_running
    /\ (~replay_data.loaded \/ replay_data.rows = <<>>)
    /\ replay_errors' = TRUE
    /\ replay_is_running' = FALSE
    /\ replay_thread' = "none"
    /\ UNCHANGED <<replay_data, current_index, replay_emitted>>

\* _generate_loop, lines 179-211: one iteration
replay_iteration ==
    /\ replay_thread = "loop" /\ replay_is_running
    /\ replay_data.loaded /\ replay_data.rows # <<>>
    /\ Len(replay_emitted) < MaxReplayEmits
    /\ LET idx == IF current_index >= Len(replay_data.rows) THEN 0 ELSE current_index
       IN  /\ replay_emitted' = Append(replay_emitted,
                                       [index |-> idx, vector |-> ReplayRow(replay_data.rows[idx + 1])])
           /\ current_index' = idx + 1
    /\ UNCHANGED <<replay_data, replay_is_running, replay_thread, replay_errors>>

NextReplay ==
    \/ \E t \in ReplayTables : load_file(t) /\ UNCHANGED notReplay
    \/ replay_start /\ UNCHANGED notReplay
    \/ replay_stop /\ UNCHANGED notReplay
    \/ replay_no_data /\ UNCHANGED notReplay
    \/ replay_iteration /\ UNCHANGED notReplay

----------------------------------------------------------------------------
(* TcpServer's client list under its lock, with the frames each client is  *)
(* sent: send_data called by the threads in bp_senders, the accept thread  *)
(* and one call of stop().  Frames are numbered in the order the signal    *)
(* source generates them; a write of a frame to a socket is taken in two   *)
(* halves.                                                                 *)

MaxFrames == 2
MaxFifoFrames == 3
MaxPassConns == 2
Senders == {"gen1", "gen2"}
PassSocks == 1..MaxPassConns
\* the number of vectors the source generates in a run: with one thread calling
\* send_data one more than with two
FrameLimit(senders) == IF Cardinality(senders) > 1 THEN MaxFrames ELSE MaxFifoFrames

\* a lock that anyone may take at any time
CanTakeAlways(l) == TRUE
\* threading.Lock: `with self.lock` waits until the lock is free
CanTake(l) == l = "free"

\* senders: the threads that call send_data
InitPass(senders) ==
    /\ bp_senders = senders
    /\ bp_running = TRUE
    /\ bp_clients = <<>>
    /\ bp_lock = "free"
    /\ bp_send_pc = [t \in Senders |-> "idle"]
    /\ bp_send_idx = [t \in Senders |-> 0]
    /\ bp_send_frame = [t \in Senders |-> 0]
    /\ bp_send_dead = [t \in Senders |-> <<>>]
    /\ bp_acc_pc = "loop"
    /\ bp_acc_sock = 0
    /\ bp_stop_pc = "idle"
    /\ bp_next_frame = 1
    /\ bp_log = [s \in PassSocks |-> <<>>]
    /\ bp_sock = [s \in PassSocks |-> "unused"]

\* the source generates the next vector and send_data is called with it, lines
\* 128-145: nothing to do, or the vector does not pack (return 0), or the frame
\* is ready
pass_begin(t, packs) ==
    /\ t \in bp_senders /\ bp_send_pc[t] = "idle"
    /\ bp_next_frame <= FrameLimit(bp_senders)
    /\ bp_next_frame' = bp_next_frame + 1
    /\ bp_send_frame' = [bp_send_frame EXCEPT ![t] = bp_next_frame]
    /\ bp_send_pc' = [bp_send_pc EXCEPT ![t] =
                         IF ~bp_running \/ bp_clients = <<>> \/ ~packs THEN "idle" ELSE "lock"]
    /\ UNCHANGED <<bp_senders, bp_running, bp_clients, bp_lock, bp_send_idx,
                   bp_send_dead, bp_acc_pc, bp_acc_sock, bp_stop_pc, bp_log, bp_sock>>

\* line 150: with self.lock
pass_lock(t) ==
    /\ bp_send_pc[t] = "lock" /\ CanTake(bp_lock)
    /\ bp_lock' = t
    /\ bp_send_idx' = [bp_send_idx EXCEPT ![t] = 1]
    /\ bp_send_dead' = [bp_send_dead EXCEPT ![t] = <<>>]
    /\ bp_send_pc' = [bp_send_pc EXCEPT ![t] = "iter"]
    /\ UNCHANGED <<bp_senders, bp_running, bp_clients, bp_send_frame, bp_acc_pc,
                   bp_acc_sock, bp_stop_pc, bp_next_frame, bp_log, bp_sock>>

\* lines 151-158: the next client of the for loop; sendall writes the first
\* half of the frame, or raises because the connection is gone
pass_write(t) ==
    /\ bp_send_pc[t] = "iter"
    /\ IF bp_send_idx[t] > Len(bp_clients)
       THEN /\ bp_send_pc' = [bp_send_pc EXCEPT ![t] = "prune"]
            /\ UNCHANGED <<bp_send_idx, bp_send_dead, bp_log>>
       ELSE LET c == bp_clients[bp_send_idx[t]]
            IN  IF bp_sock[c] = "open"
                THEN /\ bp_log' = [bp_log EXCEPT ![c] = Append(@, <<bp_send_frame[t], 1>>)]
                     /\ bp_send_pc' = [bp_send_pc EXCEPT ![t] = "half"]
                     /\ UNCHANGED <<bp_send_idx, bp_send_dead>>
                ELSE /\ bp_send_dead' = [bp_send_dead EXCEPT ![t] = Append(@, c)]
                     /\ bp_send_idx' = [bp_send_idx EXCEPT ![t] = @ + 1]
                     /\ UNCHANGED <<bp_send_pc, bp_log>>
    /\ UNCHANGED <<bp_senders, bp_running, bp_clients, bp_lock, bp_send_frame,
                   bp_acc_pc, bp_acc_sock, bp_stop_pc, bp_next_frame, bp_sock>>

\* lines 153-158: sendall writes the rest of the frame, or raises
pass_write_rest(t) ==
    /\ bp_send_pc[t] = "half"
    /\ LET c == bp_clients[bp_send_idx[t]]
       IN  IF bp_sock[c] = "open"
           THEN /\ bp_log' = [bp_log EXCEPT ![c] = Append(@, <<bp_send_frame[t], 2>>)]
                /\ UNCHANGED bp_send_dead
           ELSE /\ bp_send_dead' = [bp_send_dead EXCEPT ![t] = Append(@, c)]
                /\ UNCHANGED bp_log
    /\ bp_send_idx' = [bp_send_idx EXCEPT ![t] = @ + 1]
    /\ bp_send_pc' = [bp_send_pc EXCEPT ![t] = "iter"]
    /\ UNCHANGED <<bp_senders, bp_running, bp_clients, bp_lock, bp_send_frame,
                   bp_acc_pc, bp_acc_sock, bp_stop_pc, bp_next_frame, bp_sock>>

\* lines 160-170: the dead clients are removed and closed, the lock released
pass_prune(t) ==
    /\ bp_send_pc[t] = "prune"
    /\ bp_clients' = Pruned(bp_clients, bp_send_dead[t])
    /\ bp_sock' = [s \in PassSocks |->
                      IF s \in Range(bp_send_dead[t]) THEN "closed" ELSE bp_sock[s]]
    /\ bp_send_dead' = [bp_send_dead EXCEPT ![t] = <<>>]
    /\ bp_send_idx' = [bp_send_idx EXCEPT ![t] = 0]
    /\ bp_lock' = "free"
    /\ bp_send_pc' = [bp_send_pc EXCEPT ![t] = "idle"]
    /\ UNCHANGED <<bp_senders, bp_running, bp_send_frame, bp_acc_pc, bp_acc_sock,
                   bp_stop_pc, bp_next_frame, bp_log>>

\* _accept_clients, line 96
pass_accept_loop ==
    /\ bp_acc_pc = "loop"
    /\ bp_acc_pc' = IF bp_running THEN "accept" ELSE "done"
    /\ UNCHANGED <<bp_senders, bp_running, bp_clients, bp_lock, bp_send_pc,
                   bp_send_idx, bp_send_frame, bp_send_dead, bp_acc_sock, bp_stop_pc,
                   bp_next_frame, bp_log, bp_sock>>

\* line 98: accept() returns a connection, or times out (lines 111-113)
pass_accept ==
    /\ bp_acc_pc = "accept"
    /\ \/ \E s \in PassSocks :
             /\ bp_sock[s] = "unused"
             /\ \A u \in PassSocks : u < s => bp_sock[u] # "unused"
             /\ bp_sock' = [bp_sock EXCEPT ![s] = "open"]
             /\ bp_acc_sock' = s
             /\ bp_acc_pc' = "lock"
       \/ /\ bp_acc_pc' = "loop"
          /\ UNCHANGED <<bp_sock, bp_acc_sock>>
    /\ UNCHANGED <<bp_senders, bp_running, bp_clients, bp_lock, bp_send_pc,
                   bp_send_idx, bp_send_frame, bp_send_dead, bp_stop_pc, bp_next_frame,
                   bp_log>>

\* line 101: with self.lock
pass_accept_lock ==
    /\ bp_acc_pc = "lock" /\ CanTake(bp_lock)
    /\ bp_lock' = "accept"
    /\ bp_acc_pc' = "check"
    /\ UNCHANGED <<bp_senders, bp_running, bp_clients, bp_send_pc, bp_send_idx,
                   bp_send_frame, bp_send_dead, bp_acc_sock, bp_stop_pc, bp_next_frame,
                   bp_log, bp_sock>>

\* lines 102-106: the capacity check and the append, then the lock is released
pass_accept_check ==
    /\ bp_acc_pc = "check"
    /\ IF AtCapacity(Len(bp_clients), DefaultMaxClients)
       THEN /\ bp_sock' = [bp_sock EXCEPT ![bp_acc_sock] = "closed"]
            /\ UNCHANGED bp_clients
       ELSE /\ bp_clients' = Append(bp_clients, bp_acc_sock)
            /\ UNCHANGED bp_sock
    /\ bp_lock' = "free"
    /\ bp_acc_pc' = "loop"
    /\ UNCHANGED <<bp_senders, bp_running, bp_send_pc, bp_send_idx, bp_send_frame,
                   bp_send_dead, bp_acc_sock, bp_stop_pc, bp_next_frame, bp_log>>

\* stop(), lines 68-71
pass_stop_flag ==
    /\ bp_stop_pc = "idle" /\ bp_running
    /\ bp_running' = FALSE
    /\ bp_stop_pc' = "lock"
    /\ UNCHANGED <<bp_senders, bp_clients, bp_lock, bp_send_pc, bp_send_idx,
                   bp_send_frame, bp_send_dead, bp_acc_pc, bp_acc_sock, bp_next_frame,
                   bp_log, bp_sock>>

\* stop(), line 74: with self.lock
pass_stop_lock ==
    /\ bp_stop_pc = "lock" /\ CanTake(bp_lock)
    /\ bp_lock' = "stop"
    /\ bp_stop_pc' = "clients"
    /\ UNCHANGED <<bp_senders, bp_running, bp_clients, bp_send_pc, bp_send_idx,
                   bp_send_frame, bp_send_dead, bp_acc_pc, bp_acc_sock, bp_next_frame,
                   bp_log, bp_sock>>

\* stop(), lines 75-80: every client closed, the list replaced, the lock released
pass_stop_clients ==
    /\ bp_stop_pc = "clients"
    /\ bp_sock' = [s \in PassSocks |-> IF s \in Range(bp_clients) THEN "closed" ELSE bp_sock[s]]
    /\ bp_clients' = <<>>
    /\ bp_lock' = "free"
    /\ bp_stop_pc' = "done"
    /\ UNCHANGED <<bp_senders, bp_running, bp_send_pc, bp_send_idx, bp_send_frame,
                   bp_send_dead, bp_acc_pc, bp_acc_sock, bp_next_frame, bp_log>>

\* the remote end of an accepted connection goes away
pass_peer_gone(s) ==
    /\ bp_sock[s] = "open"
    /\ bp_sock' = [bp_sock EXCEPT ![s] = "gone"]
    /\ UNCHANGED <<bp_senders, bp_running, bp_clients, bp_lock, bp_send_pc,
                   bp_send_idx, bp_send_frame, bp_send_dead, bp_acc_pc, bp_acc_sock,
                   bp_stop_pc, bp_next_frame, bp_log>>

NextPass ==
    \/ \E t \in Senders, packs \in BOOLEAN : pass_begin(t, packs) /\ UNCHANGED notPass
    \/ \E t \in Senders : pass_lock(t) /\ UNCHANGED notPass
    \/ \E t \in Senders : pass_write(t) /\ UNCHANGED notPass
    \/ \E t \in Senders : pass_write_rest(t) /\ UNCHANGED notPass
    \/ \E t \in Senders : pass_prune(t) /\ UNCHANGED notPass
    \/ pass_accept_loop /\ UNCHANGED notPass
    \/ pass_accept /\ UNCHANGED notPass
    \/ pass_accept_lock /\ UNCHANGED notPass
    \/ pass_accept_check /\ UNCHANGED notPass
    \/ pass_stop_flag /\ UNCHANGED notPass
    \/ pass_stop_lock /\ UNCHANGED notPass
    \/ pass_stop_clients /\ UNCHANGED notPass
    \/ \E s \in PassSocks : pass_peer_gone(s) /\ UNCHANGED notPass

----------------------------------------------------------------------------
(* WebSocketClient._cleanup_resources on the caller's thread against the   *)
(* client thread leaving _run_client, one statement at a time.  The event  *)
(* loop object is "idle" (open, not running), "running" or "closed"; the   *)
(* field self.loop refers to it or is None.  The sleeps and timeouts of    *)
(* lines 98, 108 and 120 may end at any moment.                            *)

\* the client thread is inside run_until_complete (line 165), connecting
InitTeardown ==
    /\ td_loop = "set"
    /\ td_state = "running"
    /\ td_stop = FALSE
    /\ td_coro = "none"
    /\ td_call_pc = "idle"
    /\ td_thr_pc = "run"
    /\ td_task = "pending"
    /\ td_ws = "None"

\* what the client thread does with an exception raised inside the finally
\* block and outside its try statements: the thread ends there
Uncaught == "crashed"

\* _cleanup_resources, line 92
cleanup_begin ==
    /\ td_call_pc = "idle"
    /\ td_call_pc' = IF td_loop = "set" /\ td_state # "closed" THEN "schedule" ELSE "release"
    /\ UNCHANGED <<td_loop, td_state, td_stop, td_task, td_ws, td_coro, td_thr_pc>>

\* line 95: run_coroutine_threadsafe(_disconnect_websocket(), self.loop); on a
\* closed loop it raises, caught at line 111
cleanup_schedule ==
    /\ td_call_pc = "schedule"
    /\ IF td_state = "closed"
       THEN td_call_pc' = "release" /\ UNCHANGED td_coro
       ELSE td_call_pc' = "result" /\ td_coro' = "scheduled"
    /\ UNCHANGED <<td_loop, td_state, td_stop, td_task, td_ws, td_thr_pc>>

\* lines 97-102: future.result(timeout=2.0) returns, or times out
cleanup_result ==
    /\ td_call_pc = "result"
    /\ td_call_pc' = "stop"
    /\ UNCHANGED <<td_loop, td_state, td_stop, td_task, td_ws, td_coro, td_thr_pc>>

\* lines 105-106: call_soon_threadsafe(self.loop.stop)
cleanup_stop ==
    /\ td_call_pc = "stop"
    /\ IF td_state = "closed"
       THEN td_call_pc' = "release" /\ UNCHANGED td_stop
       ELSE td_call_pc' = "close" /\ td_stop' = TRUE
    /\ UNCHANGED <<td_loop, td_state, td_task, td_ws, td_coro, td_thr_pc>>

\* lines 108-110, after the sleep: self.loop.close(), which raises on a running
\* loop (caught at line 111)
cleanup_close ==
    /\ td_call_pc = "close"
    /\ td_state' = IF td_state = "idle" THEN "closed" ELSE td_state
    /\ td_call_pc' = "release"
    /\ UNCHANGED <<td_loop, td_stop, td_task, td_ws, td_coro, td_thr_pc>>

\* line 114: self.loop = None
cleanup_release ==
    /\ td_call_pc = "release"
    /\ td_loop' = "None"
    /\ td_call_pc' = "join"
    /\ UNCHANGED <<td_state, td_stop, td_task, td_ws, td_coro, td_thr_pc>>

\* lines 117-124: join(timeout=2) returns, the thread ended or not
cleanup_join ==
    /\ td_call_pc = "join"
    /\ td_call_pc' = "reset"
    /\ UNCHANGED <<td_loop, td_state, td_stop, td_task, td_ws, td_coro, td_thr_pc>>

\* lines 126-129
cleanup_reset ==
    /\ td_call_pc = "reset"
    /\ td_ws' = "None"
    /\ td_call_pc' = "done"
    /\ UNCHANGED <<td_loop, td_state, td_stop, td_task, td_coro, td_thr_pc>>

\* _disconnect_websocket on the running loop, lines 254-261
loop_runs_disconnect ==
    /\ td_coro = "scheduled" /\ td_state = "running"
    /\ td_coro' = "done"
    /\ td_ws' = "None"
    /\ UNCHANGED <<td_loop, td_state, td_stop, td_task, td_call_pc, td_thr_pc>>

\* _connect_to_server, lines 216-217: the connection is made
client_connects ==
    /\ td_thr_pc = "run" /\ td_state = "running" /\ td_ws = "None" /\ td_coro = "none"
    /\ td_ws' = "open"
    /\ UNCHANGED <<td_loop, td_state, td_stop, td_task, td_coro, td_call_pc, td_thr_pc>>

\* line 165: _connect_to_server returns (the connection is over or was never
\* made), the thread goes on to run_forever, line 168
client_task_ends ==
    /\ td_thr_pc = "run" /\ td_state = "running"
    /\ td_task' = "done"
    /\ td_thr_pc' = "forever"
    /\ UNCHANGED <<td_loop, td_state, td_stop, td_ws, td_coro, td_call_pc>>

\* the loop runs the stop callback: run_forever returns, run_until_complete
\* raises (lines 169-174) with its task left pending; either way the finally
\* block follows
loop_stops ==
    /\ td_stop /\ td_state = "running" /\ td_thr_pc \in {"run", "forever"}
    /\ td_stop' = FALSE
    /\ td_state' = "idle"
    /\ td_thr_pc' = "fin_flags"
    /\ UNCHANGED <<td_loop, td_task, td_ws, td_coro, td_call_pc>>

\* lines 177-178
finally_flags ==
    /\ td_thr_pc = "fin_flags"
    /\ td_thr_pc' = "fin_ws"
    /\ UNCHANGED <<td_loop, td_state, td_stop, td_task, td_ws, td_coro, td_call_pc>>

\* line 181: if self.websocket and not self.loop.is_closed()
finally_ws_check ==
    /\ td_thr_pc = "fin_ws"
    /\ td_thr_pc' = IF td_ws = "None" THEN "fin_check"
                    ELSE IF td_loop = "None" THEN Uncaught
                    ELSE IF td_state = "closed" THEN "fin_check"
                    ELSE "fin_ws_run"
    /\ UNCHANGED <<td_loop, td_state, td_stop, td_task, td_ws, td_coro, td_call_pc>>

\* line 183: self.loop.run_until_complete(self.websocket.close()); without a
\* loop, or on a closed one, it raises, caught at line 184
finally_ws_run ==
    /\ td_thr_pc = "fin_ws_run"
    /\ IF td_loop = "None" \/ td_state = "closed"
       THEN td_thr_pc' = "fin_check" /\ UNCHANGED td_state
       ELSE td_thr_pc' = "fin_ws_close" /\ td_state' = "running"
    /\ UNCHANGED <<td_loop, td_stop, td_task, td_ws, td_coro, td_call_pc>>

\* line 183: websocket.close() completes, or the loop is stopped by a stop
\* callback still waiting (caught at line 184)
finally_ws_closed ==
    /\ td_thr_pc = "fin_ws_close"
    /\ td_state' = "idle"
    /\ td_stop' = FALSE
    /\ td_thr_pc' = "fin_check"
    /\ UNCHANGED <<td_loop, td_task, td_ws, td_coro, td_call_pc>>

\* line 188: if not self.loop.is_closed()
finally_loop_check ==
    /\ td_thr_pc = "fin_check"
    /\ td_thr_pc' = IF td_loop = "None" THEN Uncaught
                    ELSE IF td_state = "closed" THEN "fin_emit"
                    ELSE "fin_cancel"
    /\ UNCHANGED <<td_loop, td_state, td_stop, td_task, td_ws, td_coro, td_call_pc>>

\* lines 191-195: the pending tasks are cancelled and run to their end; without
\* a loop, or on a closed one, this raises, caught at line 198
finally_cancel ==
    /\ td_thr_pc = "fin_cancel"
    /\ IF td_loop = "None" \/ td_state = "closed"
       THEN td_thr_pc' = "fin_emit" /\ UNCHANGED td_task
       ELSE td_thr_pc' = "fin_close" /\ td_task' = "done"
    /\ UNCHANGED <<td_loop, td_state, td_stop, td_ws, td_coro, td_call_pc>>

\* line 197: self.loop.close(); without a loop it raises, caught at line 198
finally_close ==
    /\ td_thr_pc = "fin_close"
    /\ td_state' = IF td_loop = "set" THEN "closed" ELSE td_state
    /\ td_thr_pc' = "fin_emit"
    /\ UNCHANGED <<td_loop, td_stop, td_task, td_ws, td_coro, td_call_pc>>

\* lines 201-210: disconnected is emitted and the thread ends
finally_emit ==
    /\ td_thr_pc = "fin_emit"
    /\ td_thr_pc' = "ended"
    /\ UNCHANGED <<td_loop, td_state, td_stop, td_task, td_ws, td_coro, td_call_pc>>

NextTeardown ==
    \/ cleanup_begin /\ UNCHANGED notTeardown
    \/ cleanup_schedule /\ UNCHANGED notTeardown
    \/ cleanup_result /\ UNCHANGED notTeardown
    \/ cleanup_stop /\ UNCHANGED notTeardown
    \/ cleanup_close /\ UNCHANGED notTeardown
    \/ cleanup_release /\ UNCHANGED notTeardown
    \/ cleanup_join /\ UNCHANGED notTeardown
    \/ cleanup_reset /\ UNCHANGED notTeardown
    \/ loop_runs_disconnect /\ UNCHANGED notTeardown
    \/ client_connects /\ UNCHANGED notTeardown
    \/ client_task_ends /\ UNCHANGED notTeardown
    \/ loop_stops /\ UNCHANGED notTeardown
    \/ finally_flags /\ UNCHANGED notTeardown
    \/ finally_ws_check /\ UNCHANGED notTeardown
    \/ finally_ws_run /\ UNCHANGED notTeardown
    \/ finally_ws_closed /\ UNCHANGED notTeardown
    \/ finally_loop_check /\ UNCHANGED notTeardown
    \/ finally_cancel /\ UNCHANGED notTeardown
    \/ finally_close /\ UNCHANGED notTeardown
    \/ finally_emit /\ UNCHANGED notTeardown

----------------------------------------------------------------------------

Init ==
    /\ InitParser /\ InitBuffer /\ InitServer /\ InitTcp /\ InitDecode /\ InitFeed /\ InitWs
    /\ InitSnap /\ InitSine /\ InitReplay /\ InitPass({"gen1"}) /\ InitTeardown

SpecParser == Init /\ [][NextParser]_vars

\* the data buffer alone: the parser's stream is left untouched
OneFrame == <<[kind |-> "frame", vec |-> VecScenario, bytes |-> PackData(VecScenario)]>>
InitQuietParser == Init /\ segs = OneFrame
SpecBuffer == InitQuietParser /\ [][NextBuffer]_vars
SpecServer == InitQuietParser /\ [][NextServer]_vars
SpecTcp == InitQuietParser /\ [][NextTcp]_vars
InitRunningServer ==
    /\ InitParser /\ segs = OneFrame
    /\ InitBuffer /\ InitEncode /\ InitTcp /\ InitDecode /\ InitFeed /\ InitWs /\ InitSnap /\ InitSine /\ InitReplay /\ InitPass({"gen1"}) /\ InitTeardown
SpecEncode == InitRunningServer /\ [][NextEncode]_vars
SpecDecode == InitQuietParser /\ [][NextDecode]_vars
SpecFeed == Init /\ [][NextFeed]_vars
SpecWs == InitQuietParser /\ [][NextWs]_vars
SpecSnap == InitQuietParser /\ [][NextSnap]_vars
SpecTeardown == InitQuietParser /\ [][NextTeardown]_vars
SpecFifo == InitQuietParser /\ [][NextPass]_vars
InitTwoSenders ==
    /\ InitParser /\ segs = OneFrame
    /\ InitBuffer /\ InitServer /\ InitTcp /\ InitDecode /\ InitFeed /\ InitWs /\ InitSnap /\ InitSine /\ InitReplay
    /\ InitPass(Senders) /\ InitTeardown
SpecPass == InitTwoSenders /\ [][NextPass]_vars
SpecReplay == InitQuietParser /\ [][NextReplay]_vars
SpecSine == InitQuietParser /\ [][NextSine]_vars

----------------------------------------------------------------------------
(* Claims about the frame codec and the stream parser (SpecParser).        *)

\* the sample a frame packed from vector v stands for: each channel's 24-bit
\* integer, and labels [0, 0]
ExpectedSample(v) ==
    [channels |-> [i \in 1..channel_count |-> voltage_to_int(v[i])],
     labels |-> [i \in 1..label_count |-> 0]]

AllFed == pos = Len(stream)

\* C1 (as claimed): a frame packed from a vector of 8 in-range voltages and
\* handed to the receiver's parser comes out as exactly one sample, each channel
\* within one quantization unit of the voltage sent, labels [0, 0].
CE_C1_RoundTrip ==
    (Len(segs) = 1 /\ segs[1].kind = "frame" /\ AllFed) =>
        /\ Len(emitted) = 1
        /\ \A i \in 1..channel_count :
               Abs(segs[1].vec[i] - emitted[1].channels[i] * VoltDen) <= VoltDen
        /\ emitted[1].labels = <<0, 0>>

\* C2: however the bytes received so far were split into process_data calls,
\* the samples emitted are those one bulk call on the same bytes emits.
Thm_C2_ChunkIndependence ==
    emitted = ProcessData(<<>>, TakeN(stream, pos)).emitted

\* C2's case: a long footerless run, then a frame, handed over in several
\* calls, and the frame decoded.
Wit_C2_SplitAfterDesync ==
    /\ AllFed /\ split
    /\ Len(segs) = 2
    /\ segs[1].kind = "garbage" /\ Len(segs[1].bytes) > 2 * expected_length
    /\ segs[2].kind = "frame"
    /\ emitted = <<ExpectedSample(segs[2].vec)>>

\* C3 (as claimed): garbage bytes, then a valid frame: the frame's sample is
\* emitted exactly once.
CE_C3_GarbagePrefix ==
    (Len(segs) = 2 /\ segs[1].kind = "garbage" /\ segs[2].kind = "frame" /\ AllFed) =>
        Cardinality({i \in 1..Len(emitted) : emitted[i] = ExpectedSample(segs[2].vec)}) = 1

\* C4 (as claimed): a truncated frame, then a valid frame: exactly one sample
\* is emitted, the valid frame's.
CE_C4_TruncatedFrame ==
    (Len(segs) = 2 /\ segs[1].kind = "trunc" /\ segs[2].kind = "frame" /\ AllFed) =>
        emitted = <<ExpectedSample(segs[2].vec)>>


----------------------------------------------------------------------------
(* Claims about the data buffer (SpecBuffer).                              *)

WellFormed(d) ==
    /\ HasKeys(d)
    /\ Len(d.channels) = channel_count /\ Len(d.labels) = label_count
    /\ \A i \in 1..channel_count : Abs(d.channels[i]) <= channel_limit
    /\ \A i \in 1..label_count : Abs(d.labels[i]) <= label_limit

OnlyWellFormedPushes == ~touched /\ \A k \in 1..Len(pushed) : WellFormed(pushed[k])

\* C5: after M well-formed pushes and no clear or resize, every channel store,
\* every label store and the time axis hold the last min(M, capacity) pushed
\* entries, oldest first.
Thm_C5_FifoEviction ==
    OnlyWellFormedPushes =>
        /\ \A i \in 1..channel_count :
               channel_buffers[i] =
                   LastN([k \in 1..Len(pushed) |-> pushed[k].channels[i]], max_points)
        /\ \A i \in 1..label_count :
               label_buffers[i] =
                   LastN([k \in 1..Len(pushed) |-> pushed[k].labels[i]], max_points)
        /\ time_buffer = LastN(stamps, max_points)

\* C5's case: more well-formed pushes than the capacity, the evicted entry
\* differing from the newest one.
Wit_C5_Evicted ==
    /\ OnlyWellFormedPushes
    /\ Len(pushed) = MaxPushes /\ Len(pushed) > max_points
    /\ pushed[1] = SampleA /\ pushed[Len(pushed)] = SampleB
    /\ Len(channel_buffers[1]) = max_points

----------------------------------------------------------------------------
(* TcpServer claims *)

\* C7: when the accept loop's capacity check runs while the client list already
\* holds max_clients sockets (or more), the step closes the accepted socket and
\* leaves the client list and the client_connected events as they are; such a
\* socket is never in the client list afterwards, never gets a
\* client_connected event, and get_client_count never counts it.
Thm_C7_CapacityRejection ==
    /\ [][(acc_pc = "check" /\ Len(clients) >= max_clients /\ acc_pc' # "check")
            => /\ clients' = clients
               /\ connected_events' = connected_events
               /\ sock_state'[acc_sock] = "closed"]_vars
    /\ [](\A s \in arrived_full :
             /\ s \notin Range(clients)
             /\ s \notin connected_events
             /\ sock_state[s] = "closed")
    /\ [][client_count' # client_count
            => client_count' = Cardinality(Range(clients') \ arrived_full')]_vars

\* the third connection was turned away with max_clients = 2 and two clients
\* held, and get_client_count then returned 2
Wit_C7_ThirdRejected ==
    /\ max_clients = 2 /\ Len(clients) = 2
    /\ acc_pc = "loop" /\ acc_sock = 3 /\ 3 \in arrived_full
    /\ sock_state[3] = "closed"
    /\ client_count = 2

----------------------------------------------------------------------------
(* TCPClient claims *)

\* a reconnect thread that connect() started ends, and since that connect()
\* failed (auto_reconnect on) no call was made and no socket.connect succeeded
CleanRetryEnds(r) ==
    /\ rc_pc[r] = "clear" /\ rc_pc'[r] = "free"
    /\ rc_from_connect[r] /\ since_fail_clean

\* C6: after connect() fails with auto-reconnect on and a server that never
\* accepts, the reconnect thread makes exactly max_retries (10) attempts and
\* then reports that it gave up, before it ends.
CE_C6_TenAttempts ==
    [][\A r \in ReconnIds :
          CleanRetryEnds(r) => rc_retry[r] = max_retries /\ rc_reported[r]]_vars

\* C8: after connect() fails with auto-reconnect on, from any client state
\* (a fresh client included), at least one reconnect attempt is made while
\* the server stays down: the reconnect thread does not end without one.
CE_C8_AtLeastOneAttempt ==
    [][\A r \in ReconnIds : CleanRetryEnds(r) => rc_retry[r] >= 1]_vars

\* no thread of the client is alive and no call is running
TcpAtRest ==
    /\ call_pc = "idle"
    /\ \A t \in RecvIds : recv_pc[t] = "free"
    /\ \A r \in ReconnIds : rc_pc[r] = "free"
    /\ ~rc_extra

\* C9: after the receive loop read zero bytes while connected (auto-reconnect
\* on, no disconnect() requested), the client never comes to rest, with every
\* thread ended, before a reconnect attempt was begun.
CE_C9_ReconnectAfterClosure == ~(awaiting_reconnect /\ TcpAtRest)

\* C10: when a disconnect() called by the user returns, whatever state it was
\* called in, the client is not connected and its running flag is cleared.
CE_C10_DisconnectClears ==
    [][(call_pc = "d_conn" /\ ~call_in_connect /\ call_pc' = "idle")
        => ~tcp_is_connected' /\ ~tcp_running']_vars

----------------------------------------------------------------------------
(* Encoder claims *)

\* the length of every frame _pack_data builds
pack_length == Len(frame_header) + 3 * 8 + 3 * 2 + Len(pack_footer)
\* the three bytes of channel i (1..8) in a packed frame
ChannelBytes(frame, i) == SubSeq(frame, Len(frame_header) + 3 * i - 2, Len(frame_header) + 3 * i)
OutOfRangeHigh(x) == (x.kind = "fin" /\ x.v > FullScale * VoltDen) \/ (x.kind = "inf" /\ x.v > 0)
OutOfRangeLow(x) == (x.kind = "fin" /\ x.v < -(FullScale * VoltDen)) \/ (x.kind = "inf" /\ x.v < 0)

\* C11: whenever send_data is given a non-empty vector while the server runs and
\* has a client, it goes on to write a frame of the fixed length, in which a NaN
\* is encoded as 0, an out-of-range or infinite value as the clamped extreme and
\* a missing channel as 0; no packing error is reported and the sample is not
\* dropped.
CE_C11_EncodeNeverFails ==
    [][(gen_pc = "send" /\ is_running /\ clients # <<>> /\ gen_pc' # "send")
        => /\ ~pack_failed'
           /\ gen_pc' = "send_lock"
           /\ Len(gen_frame') = pack_length
           /\ \A i \in 1..8 :
                 /\ i > Len(gen_raw) => ChannelBytes(gen_frame', i) = <<0, 0, 0>>
                 /\ i <= Len(gen_raw) =>
                      /\ isnan(gen_raw[i]) => ChannelBytes(gen_frame', i) = <<0, 0, 0>>
                      /\ OutOfRangeHigh(gen_raw[i])
                            => ChannelBytes(gen_frame', i) = IntToBytes(FullScale)
                      /\ OutOfRangeLow(gen_raw[i])
                            => ChannelBytes(gen_frame', i) = IntToBytes(-FullScale - 1)]_vars

\* C12: _parse_frame returns no sample for every span whose length is not the
\* expected frame length, whose first two bytes are not A0 FF, or whose last
\* byte is not the footer C0; for every other span it returns one sample of
\* exactly 8 channels and 2 labels.
BadSpan(span) ==
    \/ Len(span) # 2 + (8 + 2) * 3 + 1
    \/ span[1] # 160 \/ span[2] # 255
    \/ span[Len(span)] # 192

Thm_C12_DecodeValidation ==
    dec_done =>
        IF BadSpan(dec_span) THEN dec_result = <<>>
        ELSE /\ Len(dec_result) = 1
             /\ DOMAIN dec_result[1].channels = 1..8
             /\ DOMAIN dec_result[1].labels = 1..2

Wit_C12_BadFooterRejected ==
    /\ dec_done
    /\ Len(dec_span) = expected_length
    /\ TakeN(dec_span, 2) = frame_header
    /\ dec_span[expected_length] # 192
    /\ dec_result = <<>>

\* C13: process_data terminates and returns a frame count for every buffer
\* content and every chunk, the empty one included: an iteration that goes
\* round the loop again leaves the buffer at least two bytes shorter, so a
\* call makes at most Len(buffer) \div 2 + 1 iterations, the step after the
\* last iteration is the return, and what is returned is the number of
\* samples the call emitted.
Thm_C13_FeedTerminates ==
    /\ [][feed_pc = "loop" =>
            /\ feed_pc' \in {"loop", "idle"}
            /\ feed_pc' = "loop" => Len(buffer') + 2 <= Len(buffer)
            /\ feed_pc' = "idle" =>
                  /\ feed_ret' = Len(emitted') - feed_base
                  /\ feed_ret' >= 0]_vars
    /\ [](2 * feed_iters <= feed_len + 2)

Wit_C13_ReturnedAfterSkip ==
    /\ feed_pc = "idle"
    /\ feed_skipped
    /\ feed_iters >= 3
    /\ feed_ret >= 1

\* C14: in one pass of send_data the same frame is written to every client
\* of the list; when the pass returns, every client whose write failed is out
\* of the list and closed, every client whose write succeeded is still in
\* it, and the value returned is the number of successful writes; the list
\* is not changed while the pass iterates over it.
Thm_C14_DeadClientPruning ==
    /\ [][(gen_pc = "send_prune" /\ gen_pc' = "idle") =>
            /\ Range(clients) = wrote_ok \cup Range(gen_dead)
            /\ wrote_ok \cap Range(gen_dead) = {}
            /\ \A s \in wrote_ok : received[s] = gen_frame /\ Len(gen_frame) = pack_length
            /\ \A s \in Range(gen_dead) :
                  s \notin Range(clients') /\ sock_state'[s] = "closed"
            /\ \A s \in wrote_ok : s \in Range(clients')
            /\ gen_ret' = Cardinality(wrote_ok)]_vars
    /\ [][gen_pc = "send_iter" => clients' = clients]_vars

Wit_C14_OnePrunedOneKept ==
    /\ gen_pc = "idle"
    /\ gen_ret = 1
    /\ Len(clients) = 1
    /\ \E s \in SockIds : sock_state[s] = "closed" /\ disconnected_events[s] = 1

\* TcpServer.stop() on a running server: the flag is cleared first, then the
\* clients are closed and the list emptied while the listening socket is
\* still there, then the listening socket is closed, then the accept thread
\* is joined, and only then stop() returns.
ServerStopOrder ==
    [][/\ (ui_pc = "idle" /\ ui_pc' # "idle" /\ is_running) =>
              ui_pc' = "stop_lock" /\ ~is_running'
       /\ ui_pc = "stop_lock" => ~is_running /\ ui_pc' \in {"stop_lock", "stop_clients"}
       /\ (ui_pc = "stop_clients" /\ ui_pc' # "stop_clients") =>
              /\ ui_pc' = "stop_socket" /\ clients' = <<>>
              /\ server_socket' = "listening" /\ ~is_running
              /\ \A s \in Range(clients) : sock_state'[s] = "closed"
       /\ (ui_pc = "stop_socket" /\ ui_pc' # "stop_socket") =>
              ui_pc' = "stop_join" /\ server_socket' = "None"
       /\ (ui_pc = "stop_join" /\ ui_pc' # "stop_join") => ui_pc' = "idle"]_vars

\* TCPClient.disconnect(): the step that enters the closing of the socket
\* has cleared running, and when disconnect() returns the receive thread has
\* been waited for: none is still running.
ClientDisconnectOrder ==
    [][/\ (call_pc' = "d_close" /\ call_pc # "d_close") => ~tcp_running'
       /\ (call_pc = "d_conn" /\ call_pc' # "d_conn") =>
              \A t \in RecvIds : recv_pc'[t] = "free"]_vars

\* C15: stop() clears the running flag, then closes the clients, then the
\* listening socket, then joins the accept thread; disconnect() clears the
\* running flag before closing its socket and then joins its worker thread.
CE_C15_ShutdownOrdering == ServerStopOrder /\ ClientDisconnectOrder

\* the WebSocket client has nothing left to do: no call in progress, no
\* reconnect thread, no send scheduled, the client thread gone or in
\* run_forever
WsAtRest ==
    /\ wcall_pc = "idle"
    /\ wrc_pc = "free"
    /\ ws_client \in {"none", "parked"}
    /\ ~ws_pending_send

\* C16: with auto-reconnect enabled, after a failed connect or the loss of an
\* established connection the WebSocket client makes reconnect attempts, never
\* more than 10: it does not come to rest with the failure unanswered.
CE_C16_WsReconnects ==
    /\ wrc_retry <= ws_max_retries
    /\ ~(ws_lost /\ ws_auto_reconnect /\ WsAtRest)

\* C17: a send that fails on the loop marks the connection closed and, with
\* auto-reconnect enabled, starts the reconnect path: the client does not
\* come to rest with the failed send unanswered.
CE_C17_SendFailureReconnects ==
    /\ ws_send_failed => ~ws_is_connected
    /\ ~(ws_send_failed /\ ws_auto_reconnect /\ WsAtRest)

\* C18: with auto-reconnect disabled the TCP client reports a failed connect
\* (connection_error, disconnected) and a lost connection (disconnected, with
\* connection_error when recv raised) and makes no reconnect attempt: connect()
\* and the receive thread start no reconnect thread, a retry loop begins an
\* attempt only while auto_reconnect is set, and a loop that finds it cleared
\* at its next check ends without another attempt.
Thm_C18_NoReconnectWhenDisabled ==
    [][/\ \A r \in ReconnIds :
             /\ rc_retry'[r] > rc_retry[r] => tcp_auto_reconnect
             /\ (rc_pc[r] = "check" /\ rc_pc'[r] # "check" /\ ~tcp_auto_reconnect) =>
                    rc_pc'[r] = "final" /\ rc_retry'[r] = rc_retry[r]
       /\ (call_pc \in {"c_refused", "c_exc"} /\ call_pc' # call_pc) =>
             tcp_signals' = {"connection_error", "disconnected"}
       /\ (call_pc = "c_fcheck" /\ ~tcp_auto_reconnect) => call_pc' \in {"c_fcheck", "idle"}
       /\ \A t \in RecvIds :
             /\ (recv_pc[t] = "recv" /\ recv_pc'[t] = "exit") =>
                    tcp_signals' = {"disconnected"}
             /\ (recv_pc[t] = "exc" /\ recv_pc'[t] = "exit" /\ tcp_running) =>
                    tcp_signals' = {"connection_error", "disconnected"}
             /\ (recv_pc[t] = "exit" /\ ~tcp_auto_reconnect) =>
                    recv_pc'[t] \in {"exit", "free"}]_vars

Wit_C18_LoopStoppedByFlag ==
    \E r \in ReconnIds :
        /\ rc_pc[r] = "final"
        /\ ~tcp_auto_reconnect
        /\ tcp_running /\ ~tcp_is_connected
        /\ rc_retry[r] \in 1..(max_retries - 1)

\* the value add_data is to store at place i of a vector: 0 for a place the
\* vector does not have and for a value beyond the limit
StoredValue(seq, i, limit) ==
    IF i > Len(seq) THEN 0
    ELSE IF seq[i] > limit \/ seq[i] < -limit THEN 0 ELSE seq[i]

\* a store after one more entry: the entry is last, the ones before it are
\* those it held, the oldest gone when the capacity is exceeded
WithEntry(store, x, capacity) ==
    LET all == store \o <<x>>
    IN  IF Len(all) > capacity THEN SubSeq(all, Len(all) - capacity + 1, Len(all)) ELSE all

\* C19: add_data with both 'channels' and 'labels' appends exactly one entry
\* to each of the 8 channel stores, the 2 label stores and the time axis;
\* missing values are stored as 0, values beyond the 8th channel and the 2nd
\* label are dropped, a channel value of magnitude above 1000000 and a label
\* value of magnitude above 1000 are stored as 0.  Without one of the keys
\* nothing changes.
Thm_C19_PushNormalisation ==
    [][last_op' = "add_data" /\ npush' = npush + 1 =>
         IF "channels" \in DOMAIN last_data' /\ "labels" \in DOMAIN last_data'
         THEN /\ DOMAIN channel_buffers' = 1..8 /\ DOMAIN label_buffers' = 1..2
              /\ \A i \in 1..8 :
                     channel_buffers'[i] =
                         WithEntry(channel_buffers[i],
                                   StoredValue(last_data'.channels, i, 1000000), max_points)
              /\ \A i \in 1..2 :
                     label_buffers'[i] =
                         WithEntry(label_buffers[i],
                                   StoredValue(last_data'.labels, i, 1000), max_points)
              /\ time_buffer' = WithEntry(time_buffer, current_time', max_points)
              /\ current_time' > current_time
         ELSE UNCHANGED <<channel_buffers, label_buffers, time_buffer, current_time,
                          max_points, sampling_rate>>]_vars

Wit_C19_OutlierZeroed ==
    /\ last_op = "add_data" /\ last_data = SampleOutlier
    /\ channel_buffers[1][Len(channel_buffers[1])] = 0
    /\ channel_buffers[3][Len(channel_buffers[3])] = 1000000
    /\ label_buffers[1][Len(label_buffers[1])] = 0
    /\ label_buffers[2][Len(label_buffers[2])] = -1000

\* the newest k entries of a store, in their order
Newest(store, k) == SubSeq(store, Len(store) - k + 1, Len(store))

\* C20: set_max_points(n) with n > 0 leaves in every channel store, label
\* store and the time axis exactly the newest min(size, n) entries, in their
\* order, and n is the capacity that bounds every later push; with n <= 0
\* nothing changes.
Thm_C20_ResizeKeepsNewest ==
    /\ [][last_op' = "set_max_points" =>
            IF last_max_points' > 0
            THEN /\ max_points' = last_max_points'
                 /\ \A i \in 1..8 :
                        channel_buffers'[i] =
                            Newest(channel_buffers[i],
                                   Min(Len(channel_buffers[i]), last_max_points'))
                 /\ \A i \in 1..2 :
                        label_buffers'[i] =
                            Newest(label_buffers[i],
                                   Min(Len(label_buffers[i]), last_max_points'))
                 /\ time_buffer' =
                        Newest(time_buffer, Min(Len(time_buffer), last_max_points'))
            ELSE UNCHANGED <<max_points, channel_buffers, label_buffers, time_buffer>>]_vars
    /\ [](/\ \A i \in 1..8 : Len(channel_buffers[i]) <= max_points
          /\ \A i \in 1..2 : Len(label_buffers[i]) <= max_points
          /\ Len(time_buffer) <= max_points)

Wit_C20_ShrunkToNewest ==
    /\ last_op = "set_max_points" /\ last_max_points = 1
    /\ npush >= 2
    /\ time_buffer = <<current_time>>
    /\ Len(channel_buffers[1]) = 1

\* C21: clear() empties every channel store, every label store and the time
\* axis and sets the time counter to 0, leaving capacity and sampling rate as
\* they were; the first push after it is stamped one sampling period.
Thm_C21_ClearResets ==
    [][/\ last_op' = "clear" =>
              /\ \A i \in 1..8 : channel_buffers'[i] = <<>>
              /\ \A i \in 1..2 : label_buffers'[i] = <<>>
              /\ time_buffer' = <<>>
              /\ current_time' = 0
              /\ max_points' = max_points /\ sampling_rate' = sampling_rate
       /\ (/\ last_op = "clear" /\ last_op' = "add_data"
           /\ "channels" \in DOMAIN last_data' /\ "labels" \in DOMAIN last_data') =>
              /\ time_buffer' = <<1000 \div sampling_rate>>
              /\ current_time' = 1000 \div sampling_rate
              /\ \A i \in 1..8 : Len(channel_buffers'[i]) = 1]_vars

Wit_C21_FirstPushAfterClear ==
    /\ last_op = "add_data" /\ cleared_nonempty
    /\ "channels" \in DOMAIN last_data /\ "labels" \in DOMAIN last_data
    /\ time_buffer = <<1000 \div sampling_rate>>

\* C22: what get_data returns is a state of the buffer between two complete
\* pushes: the 8 channel arrays, the 2 label arrays and the time axis have
\* one length, at most the capacity, and the entries at one place are the
\* values of one pushed sample; also when add_data runs on another thread.
CE_C22_SnapshotConsistent ==
    snap_done =>
        /\ Len(snap_channels) = 8 /\ Len(snap_labels) = 2
        /\ \A i \in 1..8 : Len(snap_channels[i]) = Len(snap_time)
        /\ \A j \in 1..2 : Len(snap_labels[j]) = Len(snap_time)
        /\ Len(snap_time) <= max_points
        /\ \A k \in 1..Len(snap_time) :
              \E d \in SnapSamples :
                  /\ \A i \in 1..8 : snap_channels[i][k] = d.channels[i]
                  /\ \A j \in 1..2 : snap_labels[j][k] = d.labels[j]

\* C23: after any calls of set_channel_params every channel's frequency is in
\* [0.1, 100] and its amplitude in [0, 1000]; a call for channel c changes the
\* parameters of channel c only, and a call with a channel outside 0..7
\* changes nothing.
InParamRange(x, lo, hi) == x.kind = "fin" /\ lo <= x.v /\ x.v <= hi
Thm_C23_ParamClamping ==
    /\ [](\A i \in 1..8 : /\ InParamRange(frequencies[i], frequency_min, frequency_max)
                          /\ InParamRange(amplitudes[i], amplitude_min, amplitude_max))
    /\ [][sine_calls' = sine_calls + 1 =>
             \A i \in 1..8 :
                 i # last_params'.channel + 1 =>
                     /\ frequencies'[i] = frequencies[i]
                     /\ amplitudes'[i] = amplitudes[i]]_vars
Wit_C23_ClampedAndIgnored ==
    /\ sine_calls = 2
    /\ last_params.channel = 8
    /\ frequencies[4] = Fin(frequency_max) /\ amplitudes[4] = Fin(amplitude_max)

\* C24: while running, the file replay source emits the rows of the loaded
\* table in the order of their index, row 0 following the last row, and every
\* emitted vector has exactly 8 values, each of them finite, a value that was
\* not finite in the table being 0.
ReplayZeroed(row) ==
    [i \in 1..8 |-> IF i > Len(row) \/ row[i].kind # "fin" THEN Fin(0) ELSE row[i]]
CE_C24_ReplayOrderAndValues ==
    /\ \A k \in 1..Len(replay_emitted) :
          /\ Len(replay_emitted[k].vector) = 8
          /\ replay_emitted[k].vector = ReplayZeroed(replay_data.rows[replay_emitted[k].index + 1])
    /\ \A k \in 1..(Len(replay_emitted) - 1) :
          replay_emitted[k + 1].index =
              IF replay_emitted[k].index = Len(replay_data.rows) - 1 THEN 0
              ELSE replay_emitted[k].index + 1

\* C25: the frames packed from any sequence of sample vectors, concatenated
\* and handed to a fresh parser in any chunking, come out as exactly one
\* sample per frame, in the order sent, none dropped and none duplicated.
CleanStream == \A i \in 1..Len(segs) : segs[i].kind = "frame"
CE_C25_LosslessInOrder ==
    (CleanStream /\ AllFed) =>
        emitted = [i \in 1..Len(segs) |-> ExpectedSample(segs[i].vec)]

\* C26: when the bytes fed are exactly a concatenation of packed frames, every
\* emitted sample is the decoding of one whole sent frame: the samples emitted
\* are, in order, those of the frames that hold no footer byte before their
\* footer, and no sample comes from a span that starts inside a frame or
\* straddles two frames.
FooterFree(v) == Find(PackData(v), frame_footer, 1) = expected_length
Thm_C26_NoFabricatedFrames ==
    (CleanStream /\ AllFed) =>
        emitted = SelectSeq([i \in 1..Len(segs) |-> ExpectedSample(segs[i].vec)],
                            LAMBDA e : \E i \in 1..Len(segs) :
                                           /\ e = ExpectedSample(segs[i].vec)
                                           /\ FooterFree(segs[i].vec))
Wit_C26_InnerHeaderNotDecoded ==
    /\ CleanStream /\ AllFed /\ split
    /\ Len(segs) = 2
    /\ segs[1].vec = VecFooterThenHeader /\ segs[2].vec = VecScenario
    /\ emitted = <<ExpectedSample(VecScenario)>>

\* C27: when a header is at the start of the accumulator and the first footer
\* byte after it is not at the distance of a frame, feed discards the header
\* only, emits nothing for it and goes on scanning in the same call, so that a
\* valid frame lying later in the accumulator is decoded in that call.
FalseHeaderAtStart(buf) ==
    /\ Find(buf, frame_header, 1) = 1
    /\ Len(buf) >= expected_length
    /\ Find(buf, frame_footer, Len(frame_header) + 1) \notin {0, expected_length}
CE_C27_FalseHeaderSkipped ==
    /\ [][(feed_pc = "loop" /\ FalseHeaderAtStart(buffer)) =>
             /\ buffer' = DropN(buffer, Len(frame_header))
             /\ emitted' = emitted
             /\ feed_pc' = "loop"]_vars
    /\ []((/\ feed_pc = "idle" /\ feed_ret >= 0 /\ feed_skipped
           /\ AllFed /\ ~split /\ feed_len = Len(stream)
           /\ Len(segs) = 2 /\ segs[2].kind = "frame"
           /\ segs[1].kind = "garbage" /\ FalseHeaderAtStart(stream)) =>
              \E k \in 1..Len(emitted) : emitted[k] = ExpectedSample(segs[2].vec))

\* C28: when a header is at the start of the accumulator, at least a frame's
\* length of bytes is held and no footer byte follows the header, feed keeps
\* the trailing expected_length bytes if the accumulator is longer than twice
\* the expected length and leaves it unchanged otherwise, and returns; a valid
\* frame whose beginning was in the accumulator then and which completes in a
\* later feed is decoded.
NoFooterAfterHeader(buf) ==
    /\ Find(buf, frame_header, 1) = 1
    /\ Len(buf) >= expected_length
    /\ Find(buf, frame_footer, Len(frame_header) + 1) = 0
CE_C28_DesyncCutOff ==
    /\ [][(feed_pc = "loop" /\ NoFooterAfterHeader(buffer)) =>
             /\ buffer' = IF Len(buffer) > 2 * expected_length
                          THEN LastN(buffer, expected_length) ELSE buffer
             /\ emitted' = emitted
             /\ feed_pc' = "idle"]_vars
    /\ []((/\ feed_pc = "idle" /\ AllFed
           /\ Len(segs) = 2 /\ segs[2].kind = "frame"
           /\ feed_desync > Len(segs[1].bytes)) =>
              \E k \in 1..Len(emitted) : emitted[k] = ExpectedSample(segs[2].vec))

\* C29: after every return of process_data, whatever the chunks fed so far,
\* the accumulator retained is at most twice the expected frame length long.
Thm_C29_BoundedAccumulator ==
    feed_pc = "idle" => Len(buffer) <= 2 * expected_length
Wit_C29_CutAtReturn ==
    /\ feed_pc = "idle" /\ feed_ret = 0
    /\ feed_len > 2 * expected_length
    /\ feed_desync = pos
    /\ Len(buffer) = expected_length

\* C30: for every channel voltage x the three bytes written by the encoder
\* are the little-endian two's complement of round(x / 1000 * 8388607)
\* clamped to [-8388608, 8388607], and the decoder maps the three bytes back
\* to that signed integer.
RoundDiv(v, d) ==
    LET q == v \div d
        r == v - q * d
    IN  IF 2 * r < d THEN q
        ELSE IF 2 * r > d THEN q + 1
        ELSE IF q % 2 = 0 THEN q ELSE q + 1
RoundedClamped(v) == Max(-FullScale - 1, Min(FullScale, RoundDiv(v, VoltDen)))
CE_C30_ScalingRule ==
    (gen_pc = "send_lock" /\ ~pack_failed) =>
        \A i \in 1..Min(8, Len(gen_data)) :
            gen_data[i].kind = "fin" =>
                /\ ChannelBytes(gen_frame, i) = IntToBytes(RoundedClamped(gen_data[i].v))
                /\ BytesToInt(ChannelBytes(gen_frame, i)) = RoundedClamped(gen_data[i].v)

\* C31: for every client removed from the client set because a write to it
\* failed during a broadcast pass, exactly one client_disconnected event is
\* reported.
CE_C31_DisconnectEventOnPruning ==
    [][(gen_pc = "send_prune" /\ gen_pc' = "idle") =>
          \A s \in SockIds :
              disconnected_events'[s] =
                  disconnected_events[s] + (IF s \in Range(gen_dead) THEN 1 ELSE 0)]_vars

\* a send_data call is inside its for loop over the client list
Iterating(t) == bp_send_pc[t] \in {"iter", "half"}
\* the pieces written to a socket are whole frames: the two halves of one frame
\* next to each other, only the last frame possibly unfinished
WholeFrames(log) ==
    \A i \in 1..Len(log) :
        IF i % 2 = 1
        THEN log[i][2] = 1
        ELSE log[i][2] = 2 /\ log[i][1] = log[i - 1][1]

\* C32: in every interleaving of send_data calls, the accept thread and stop(),
\* the client list is not appended to, pruned or replaced while a send_data call
\* is iterating over it, two calls are never inside their loops at once, and no
\* client receives the pieces of two frames interleaved.
Thm_C32_ClientSetMutualExclusion ==
    /\ [][(\E t \in Senders : Iterating(t)) => bp_clients' = bp_clients]_vars
    /\ [](\A t, u \in Senders :
             (t # u /\ bp_send_pc[t] \in {"iter", "half", "prune"})
                 => bp_send_pc[u] \notin {"iter", "half", "prune"})
    /\ [](\A s \in PassSocks : WholeFrames(bp_log[s]))
\* a send_data call is between the two halves of a frame while the other call,
\* the accept thread and stop() all wait for the lock
Wit_C32_AllWaitDuringPass ==
    /\ bp_send_pc["gen1"] = "half" /\ bp_send_pc["gen2"] = "lock"
    /\ bp_acc_pc = "lock" /\ bp_stop_pc = "lock"

\* the numbers of the frames a socket was sent, in the order of sending
FramesOf(log) == [i \in 1..((Len(log) + 1) \div 2) |-> log[2 * i - 1][1]]
\* consecutive frame numbers, ascending
Contiguous(fs) == \A i \in 2..Len(fs) : fs[i] = fs[i - 1] + 1

\* C33: every client that stays connected receives a contiguous run of the frames
\* the signal source generated, in generation order, none twice.
CE_C33_PerClientFifo ==
    \A s \in PassSocks :
        (bp_sock[s] = "open" /\ s \in Range(bp_clients)) => Contiguous(FramesOf(bp_log[s]))

\* the receive loop's recv call of line 109 is made on a handle that is not closed
RecvOnOpenHandle ==
    \A t \in RecvIds : (recv_pc[t] = "recv" /\ recv_pc'[t] # "recv") => tcp_socket # "closed"
\* the socket.connect of connect() (line 45) is made on a handle just created
ConnectOnFreshHandle ==
    (call_pc = "c_connect" /\ call_pc' # "c_connect") => tcp_socket = "new"
\* the socket.connect of a reconnect attempt (line 158) is made on a handle just
\* created
ReconnectOnFreshHandle ==
    \A r \in ReconnIds : (rc_pc[r] = "connect" /\ rc_pc'[r] # "connect") => tcp_socket = "new"

\* C34: under every interleaving of connect, disconnect, the receive loop and the
\* reconnect loop, connect() and every reconnect attempt connect a newly created
\* socket, and no socket call is made on a handle that has been closed.
CE_C34_FreshHandlePerAttempt ==
    [][RecvOnOpenHandle /\ ConnectOnFreshHandle /\ ReconnectOnFreshHandle]_vars

\* the step that closes the event loop finds no task pending
TasksDoneAtClose == (td_state' = "closed" /\ td_state # "closed") => td_task = "done"
\* loop.close() of line 110 is not called on a running loop
NoCloseWhileRunning == (td_call_pc = "close" /\ td_call_pc' # "close") => td_state # "running"
\* the caller schedules onto the loop (lines 95, 106) only while it is not closed
NoScheduleOnClosed ==
    (td_call_pc \in {"schedule", "stop"} /\ td_call_pc' # td_call_pc) => td_state # "closed"
\* the client thread's statements that go through self.loop (lines 181-197) find
\* it set, and those that run the loop find it not closed
NoUseAfterRelease ==
    /\ (td_thr_pc' # td_thr_pc /\ (td_thr_pc \in {"fin_ws_run", "fin_check", "fin_cancel", "fin_close"}
                                    \/ (td_thr_pc = "fin_ws" /\ td_ws # "None")))
           => td_loop = "set"
    /\ (td_thr_pc' # td_thr_pc /\ td_thr_pc \in {"fin_ws_run", "fin_cancel"}) => td_state # "closed"

\* C35: in every interleaving of _cleanup_resources with the client thread's
\* finally block, pending tasks are cancelled before the event loop is closed,
\* and the loop is never scheduled onto, run, closed while running or
\* dereferenced after it has been closed or set to None.
CE_C35_TeardownOrder ==
    [][TasksDoneAtClose /\ NoCloseWhileRunning /\ NoScheduleOnClosed /\ NoUseAfterRelease]_vars

\* C36: while the server is running, an error raised by accept other than a
\* timeout is reported and the accept loop goes on (connections arriving later
\* are accepted); the loop ends only after stop().
CE_C36_AcceptLoopSurvivesErrors ==
    /\ [][(acc_pc = "accept" /\ is_running /\ accept_errors' = accept_errors + 1)
             => acc_pc' \in {"loop", "accept"}]_vars
    /\ [](acc_pc = "done" => ~is_running)

\* C37: once stop() has returned and the accept loop has ended, the client list
\* is empty and every socket that was accepted is closed, whatever the
\* interleaving of stop() with an accept completing at the same time.
CE_C37_StopLeavesNoClients ==
    (ui_pc = "idle" /\ ~is_running /\ acc_pc = "done")
        => (clients = <<>> /\ \A s \in SockIds : sock_state[s] # "open")

\* C39: after disconnect() has returned, and until connect() is called again, the
\* client does not become connected and no receive loop is started, even if a
\* reconnect attempt was in flight when disconnect() was called.
CE_C39_DisconnectIsFinal ==
    [][(disc_requested /\ call_pc = "idle" /\ disc_requested')
          => /\ (tcp_is_connected' => tcp_is_connected)
             /\ \A t \in RecvIds : recv_pc[t] = "free" => recv_pc'[t] = "free"]_vars

\* C38: a receive loop started for an earlier connection never takes a recv on
\* the socket of a connection made after it (reading from it, or finding it
\* closed by the peer and reporting that), so that at most one receive loop reads
\* from the client's current socket.
CE_C38_SingleReceiveLoop ==
    [][\A t \in RecvIds :
          (recv_old[t] /\ recv_pc[t] = "recv" /\ recv_pc'[t] # "recv")
              => tcp_socket \notin {"conn", "peer_closed"}]_vars

\* the _auto_reconnect threads that are alive
ReconnectLoops ==
    Cardinality({r \in ReconnIds : rc_pc[r] # "free"}) + (IF rc_extra THEN 1 ELSE 0)

\* C40: at every moment at most one auto-reconnect loop of the client is alive,
\* whatever the interleaving of connect(), the receive loop's exit and the end of
\* an earlier reconnect loop.
CE_C40_SingleReconnectWorker == ReconnectLoops <= 1

====
